---- MODULE Spec2Model ----
(***************************************************************************)
(* A model of the festo_robotcontroller drive layer: the CiA-402 reset and *)
(* enable handshake of Device (src/src/device.rs) and the motion calls of  *)
(* Servo (src/src/device/servo.rs), driven by one control task against a   *)
(* drive that answers every cycle() exchange with an input image of its    *)
(* own choosing.                                                           *)
(*                                                                         *)
(* A step of the model is one call, or one cycle() exchange together with  *)
(* the code that runs after it up to the next cycle() or the return.  In a *)
(* state with pc # "idle" the task is suspended inside cycle(): out is the *)
(* image that this exchange carries to the drive.                          *)
(*                                                                         *)
(* Four specifications share the variables: SpecEnable (Device::new and    *)
(* Device::reset), SpecMotion (the motion calls on an enabled device),     *)
(* SpecImage (the accessor functions on their own) and SpecController      *)
(* (Controller::new on the PduStorages).                                   *)
(***************************************************************************)
EXTENDS Integers, Sequences, FiniteSets, TLC

VARIABLES
    id,       \* Device.id: the index the handle was made for
    out,      \* the device's output image (outputs_raw)
    inp,      \* the device's input image (inputs_raw)
    pc,       \* where the control task is suspended; "idle" between calls
    op,       \* the running call, or the last one when idle
    timeout,  \* the live retry counter (retries / timeout locals)
    result,   \* what the last finished call returned
    live,     \* a Device handle exists (Device::new returned Ok)
    sim,      \* the drive: Free, or a simulated drive with a fixed schedule
    calls,    \* history: calls made so far
    cycles,   \* history: cycle() calls of this call
    n1,       \* history: cycle() calls of the first enable loop
    n2,       \* history: cycle() calls of the second enable loop
    frSet,    \* history: FaultReset was set in this call
    sawOE,    \* history: an image of this call showed OperationEnabled
    okAll,    \* history: every exchange of this call showed Fault = Warning = 0
    prev,     \* history: the call before this one and how it went
    mis0,     \* history: the mode echo differed from the mode asked, at the call
    sawMode,  \* history: an exchange of this call echoed the mode asked
    ctl,      \* the PduStorages and what Controller::new has done on each
    bus,      \* what the last call of the Controller did on the bus, in order
    cw0,      \* history: the controlword when this call was made
    sentC4    \* history: an exchange of this call carried the start bit raised

vars == <<id, out, inp, pc, op, timeout, result, live, sim, calls, cycles,
          n1, n2, frSet, sawOE, okAll, prev, mis0, sawMode, ctl, bus, cw0, sentC4>>

----------------------------------------------------------------------------
(* Bounds of the model.                                                    *)

\* The group holds devices 0 .. GroupLen-1; subdevice() fails for any other.
GroupLen == 3

\* Calls made in one behaviour.
MaxCalls == 3

\* The retry budgets, scaled down: `retries = 1000` (device.rs:375),
\* `timeout = 1_000_000` (device.rs:297) and `timeout = 100` (device.rs:550).
\* Motion calls made on one handle, and cycle() calls of one motion call:
\* the waits for an acknowledge have no bound of their own.
MaxMotionCalls == 2
MaxCycles == 5

ResetRetries == 2
EnableTimeout == 6
ModeTimeout == 2

\* The poll budget of disable, scaled down: `timeout = 1_000` (device.rs:607).
DisableTimeout == 2

\* Accessor calls made in a row on one pair of images.
MaxImageCalls == 2

\* Calls of Controller::new in one behaviour.
MaxControllerCalls == 4

\* Devices in the group Controller::new finds on the bus
MaxDevices == 2

\* Calls of Controller::cycle
MaxControllerCycles == 2

\* The longest an exchange takes, in the unit of the cycle time
MaxElapsed == 4

----------------------------------------------------------------------------
(* Program constants.                                                      *)

CB_SwitchOn == 0
CB_EnableVoltage == 1
CB_QuickStop == 2
CB_EnableOperation == 3
CB_Control4 == 4
CB_Control5 == 5
CB_Control6 == 6
CB_FaultReset == 7
CB_Halt == 8
CB_Control9 == 9

SW_SwitchedOn == 1
SW_OperationEnabled == 2
SW_Fault == 3
SW_VoltageEnabled == 4
SW_QuickStop == 5
SW_Warning == 7
SW_MotionComplete == 10
SW_AckStartRefReached == 12
SW_DriveHomed == 15

PDO_ControlStatusWord == 0
PDO_OperationMode == 2
PDO_Position == 3
PDO_ProfileVelocity == 7

ProfilePosition == 1
Homing == 6
Jog == 253

\* Bytes of the output and input image under the PDO mapping.
OutLen == 24
InLen == 18

----------------------------------------------------------------------------
(* The process image accessor.                                             *)

\* An image is a sequence of bytes; byte k of the image is img[k + 1].
At(img, k) == img[k + 1]

Put(img, k, v) == [img EXCEPT ![k + 1] = v]

BitOf(v, b) == (v \div (2 ^ b)) % 2 = 1

WithBit(v, b) == IF BitOf(v, b) THEN v ELSE v + 2 ^ b

WithoutBit(v, b) == IF BitOf(v, b) THEN v - 2 ^ b ELSE v

\* group.subdevice(main_device, id) is Ok
Available == id < GroupLen

\* set_bit stopping at the last byte of the image instead of wrapping
set_bit_clamped(o, bit, byte) ==
    IF ~Available THEN o
    ELSE LET b == IF byte + bit \div 8 < Len(o) THEN byte + bit \div 8
                  ELSE Len(o) - 1
         IN  Put(o, b, WithBit(At(o, b), bit % 8))

set_bit(o, bit, byte) ==
    IF ~Available THEN o
    ELSE LET b == (byte + bit \div 8) % Len(o)
         IN  Put(o, b, WithBit(At(o, b), bit % 8))

unset_bit(o, bit, byte) ==
    IF ~Available THEN o
    ELSE LET b == (byte + bit \div 8) % Len(o)
         IN  Put(o, b, WithoutBit(At(o, b), bit % 8))

\* get_bit reading the output image
get_bit_outputs(i, bit, byte) ==
    /\ Available
    /\ BitOf(At(out, (byte + bit \div 8) % Len(out)), bit % 8)

get_bit(i, bit, byte) ==
    /\ Available
    /\ BitOf(At(i, (byte + bit \div 8) % Len(i)), bit % 8)

ready_state(i) == get_bit(i, SW_OperationEnabled, PDO_ControlStatusWord)

\* unset_control clearing EnableOperation along with the control bits
unset_control_wide(o) ==
    unset_bit(unset_bit(unset_bit(unset_bit(unset_bit(o,
        CB_EnableOperation, PDO_ControlStatusWord),
        CB_Control4, PDO_ControlStatusWord),
        CB_Control5, PDO_ControlStatusWord),
        CB_Control6, PDO_ControlStatusWord),
        CB_Control9, PDO_ControlStatusWord)

unset_control(o) ==
    unset_bit(unset_bit(unset_bit(unset_bit(o,
        CB_Control4, PDO_ControlStatusWord),
        CB_Control5, PDO_ControlStatusWord),
        CB_Control6, PDO_ControlStatusWord),
        CB_Control9, PDO_ControlStatusWord)

get_error(i) ==
    LET f == get_bit(i, SW_Fault, PDO_ControlStatusWord)
        w == get_bit(i, SW_Warning, PDO_ControlStatusWord)
    IN  IF f THEN (IF w THEN "FaultAndWarning" ELSE "Fault")
        ELSE (IF w THEN "Warning" ELSE "Ok")

Zeros(n) == [k \in 1 .. n |-> 0]

\* outputs_raw_mut().fill(0)
fill0(o) == [k \in DOMAIN o |-> 0]

----------------------------------------------------------------------------
(* The drive.  Every exchange hands the task a new input image.  The drive *)
(* is not told how to behave: it may answer anything, drawn here from the  *)
(* statuswords over the bits that the running code reads.                  *)

RECURSIVE BitsValue(_)
BitsValue(S) ==
    IF S = {} THEN 0
    ELSE LET b == CHOOSE x \in S : TRUE IN 2 ^ b + BitsValue(S \ {b})

\* An input image: the statusword little-endian in bytes 0 and 1, the
\* mode-of-operation display in byte 2.
Input(sw, echo) ==
    [k \in 1 .. InLen |->
        IF k = 1 THEN sw % 256
        ELSE IF k = 2 THEN sw \div 256
        ELSE IF k = PDO_OperationMode + 1 THEN echo
        ELSE 0]

StatusWord(i) == At(i, 0) + 256 * At(i, 1)

\* Bit b of the statusword of image i, as the drive set it.
Status(i, b) == BitOf(StatusWord(i), b)

\* Bit b of the controlword of image o, as the drive will see it.
Controlword(o) == At(o, 0) + 256 * At(o, 1)

Control(o, b) == BitOf(Controlword(o), b)

\* Reset reads Fault and Warning, and the image of its last exchange is the
\* one the first enable loop starts from; the enable loops read the other four.
EnableBits ==
    {SW_SwitchedOn, SW_OperationEnabled, SW_VoltageEnabled, SW_QuickStop}

ResetBits == EnableBits \cup {SW_Fault, SW_Warning}

EnableInputs == {Input(BitsValue(S), 0) : S \in SUBSET EnableBits}

ResetInputs == {Input(BitsValue(S), 0) : S \in SUBSET ResetBits}

Free == [kind |-> "free"]

\* A simulated drive: VoltageEnabled and QuickStop from the n-th exchange of
\* the enable loops on, OperationEnabled and SwitchedOn from the (n+m)-th on.
Simulated ==
    [kind : {"sim"}, n : 0 .. EnableTimeout - 1, m : 0 .. EnableTimeout - 1]

FW(i) == Status(i, SW_Fault) \/ Status(i, SW_Warning)

\* What the drive may answer at the k-th exchange of the enable loops
\* (k = 0: an exchange of Reset).
Responses(k) ==
    LET all == IF k = 0 THEN ResetInputs ELSE EnableInputs
    IN  IF sim.kind = "free" THEN all
        ELSE {i \in all :
                /\ Status(i, SW_VoltageEnabled) = (k >= sim.n)
                /\ Status(i, SW_QuickStop) = (k >= sim.n)
                /\ Status(i, SW_OperationEnabled) = (k >= sim.n + sim.m)
                /\ Status(i, SW_SwitchedOn) = (k >= sim.n + sim.m)}

----------------------------------------------------------------------------
(* Results.                                                                *)

NoResult == [tag |-> "None"]

Ok == [tag |-> "Ok"]

ResetError(tag) == [tag |-> tag, device |-> id]

EnableError_ResetFailed(e) == [tag |-> "ResetFailed", error |-> e]

EnableError(tag) == [tag |-> tag, device |-> id]

\* Where the task goes next: suspended in cycle() at pc with the image o to
\* send, or returned (pc = "idle") with a result.
Frame(p, o, t, r) == [pc |-> p, out |-> o, timeout |-> t, result |-> r]

Return(o, t, r) == Frame("idle", o, t, r)

----------------------------------------------------------------------------
(* Controller::new.  A PduStorage is a static of the caller; try_split     *)
(* hands its three parts out once and fails from then on.  ctl[s] records  *)
(* for storage s whether it has been split and how often Controller::new   *)
(* has got to each of its later stages on it.                              *)

Storages == {1, 2}

\* No Controller::new has been called on the storage.
Untouched ==
    [is_split |-> FALSE, spawned |-> 0, groups |-> 0, configured |-> 0,
     controllers |-> 0, cycle_time |-> 0]

ControllerError(tag) == [tag |-> tag]

\* controller.rs:174: the object the cycle time is written to, 0x212E:2.  The
\* value written is the Duration in seconds as an f32; the model keeps the
\* Duration, in a unit of its own.
CycleTimeIndex == 8494

CycleTimeSubIndex == 2

\* controller.rs:128: 0x1600
PDO_OUTPUT_INDEX == 5632

\* controller.rs:131-141: 0x6040_0010, 0x6060_0008, 0x607a_0020, 0x6081_0020,
\* 0x60ff_0020, 0x6071_0010, 0x60b1_0020, 0x60b2_0010, 0x0000_0008
PDO_OUTPUT ==
    <<1614807056, 1616904200, 1618608160, 1619066912, 1627324448,
      1618018320, 1622212640, 1622278160, 8>>

\* controller.rs:144: 0x1A00
PDO_INPUT_INDEX == 6656

\* controller.rs:147-155: 0x6041_0010, 0x6061_0008, 0x6064_0020, 0x606c_0020,
\* 0x6077_0010, 0x2194_0520, 0x0000_0008
PDO_INPUT ==
    <<1614872592, 1616969736, 1617166368, 1617690656, 1618411536,
      563348768, 8>>

\* controller.rs:160-161: the names and the product ids of the CMMT drives,
\* 0x7B_5A25 and 0x7B_1A95
CmmtNames == {"CMMT-AS", "CMMT-ST"}

CmmtProductIds == {8084005, 8067733}

\* A name and a product id of some other make.
OtherName == "EK1100"

OtherProductId == 72100946

\* The subdevices a group is made of: a drive known by its name only, one
\* known by its product id only, and one that is no drive.
SubDevices ==
    {[name |-> n, product_id |-> OtherProductId] : n \in CmmtNames}
    \cup {[name |-> OtherName, product_id |-> p] : p \in CmmtProductIds}
    \cup {[name |-> OtherName, product_id |-> OtherProductId]}

\* The device test of configure_devices reading `or` as `and`
Recognized_both(d) ==
    d.name \in CmmtNames /\ d.product_id \in CmmtProductIds

\* controller.rs:160-164: the device is not skipped
Recognized(d) ==
    ~(d.name \notin CmmtNames /\ d.product_id \notin CmmtProductIds)

\* What a call of the Controller does on the bus and to the clock, in order:
\* the group found, each SDO write and whether it succeeded, the move to
\* operational, the exchange of a cycle and the sleep after it.
Event(kind, dev, index, sub, value, ok) ==
    [kind |-> kind, dev |-> dev, index |-> index, sub |-> sub,
     value |-> value, ok |-> ok]

InitGroup(group) == Event("init_single_group", 0, 0, 0, group, TRUE)

SdoWrite(dev, index, sub, value, ok) ==
    Event("sdo_write", dev, index, sub, value, ok)

IntoOp(ok) == Event("into_op", 0, 0, 0, <<>>, ok)

TxRx(ok) == Event("tx_rx", 0, 0, 0, <<>>, ok)

Sleep(d) == Event("sleep", 0, 0, 0, <<d>>, TRUE)

\* The write to object `index` of device dev fails in the environment `bad`.
Fails(bad, dev, index) == [dev |-> dev, index |-> index] \in bad

\* controller.rs:157-212: the devices from the k-th on, t the writes so far
RECURSIVE configure_devices_from(_, _, _, _, _)
configure_devices_from(k, group, cycle_time, bad, t) ==
    IF k > Len(group) THEN [result |-> Ok, bus |-> t]
    ELSE IF ~Recognized(group[k])
    THEN configure_devices_from(k + 1, group, cycle_time, bad, t)
    ELSE LET w1 == ~Fails(bad, k, CycleTimeIndex)
             w2 == ~Fails(bad, k, PDO_OUTPUT_INDEX)
             w3 == ~Fails(bad, k, PDO_INPUT_INDEX)
             t1 == Append(t, SdoWrite(k, CycleTimeIndex, CycleTimeSubIndex,
                                      <<cycle_time>>, w1))
             t2 == Append(t1, SdoWrite(k, PDO_OUTPUT_INDEX, 0, PDO_OUTPUT, w2))
             t3 == Append(t2, SdoWrite(k, PDO_INPUT_INDEX, 0, PDO_INPUT, w3))
         IN  IF ~w1 THEN [result |-> ControllerError("CycleTime"), bus |-> t1]
             ELSE IF ~w2
             THEN [result |-> ControllerError("OutputPdo"), bus |-> t2]
             ELSE IF ~w3
             THEN [result |-> ControllerError("InputPdo"), bus |-> t3]
             ELSE configure_devices_from(k + 1, group, cycle_time, bad, t3)

\* controller.rs:121-213
configure_devices(group, cycle_time, bad, t) ==
    configure_devices_from(1, group, cycle_time, bad, t)

\* controller.rs:242-244: Err(()) once the storage has been split
try_split(c) ==
    IF c.is_split THEN [ok |-> FALSE, storage |-> c]
    ELSE [ok |-> TRUE, storage |-> [c EXCEPT !.is_split = TRUE]]

\* controller.rs:255-282: from tx_rx_task on, in the environment env: whether
\* the task can be spawned and the group initialised, the devices found, the
\* SDO writes that fail, whether the group can be made operational
controller_new_stages(c, cycle_time, env) ==
    IF ~env.spawn
    THEN [storage |-> c, bus |-> <<>>,
          result |-> ControllerError("FailedToSpawnUpdateTask")]
    ELSE IF ~env.init
    THEN [storage |-> [c EXCEPT !.spawned = @ + 1], bus |-> <<>>,
          result |-> ControllerError("FailedToInitializeGroup")]
    ELSE LET c2 == [c EXCEPT !.spawned = @ + 1, !.groups = @ + 1]
             conf == configure_devices(env.group, cycle_time, env.bad,
                                       <<InitGroup(env.group)>>)
         IN  IF conf.result # Ok
             THEN [storage |-> c2, bus |-> conf.bus, result |-> conf.result]
             ELSE LET c3 == [c2 EXCEPT !.configured = @ + 1]
                      t == Append(conf.bus, IntoOp(env.into_op))
                  IN  IF ~env.into_op
                      THEN [storage |-> c3, bus |-> t,
                            result |-> ControllerError(
                                           "FailedToMakeGroupOperational")]
                      ELSE [storage |-> [c3 EXCEPT
                                            !.controllers = @ + 1,
                                            !.cycle_time = cycle_time],
                            bus |-> t, result |-> Ok]

\* Controller::new that claims the storage only after the update task is spawned
controller_new_split_late(c, cycle_time, env) ==
    IF ~env.spawn
    THEN [storage |-> c, bus |-> <<>>,
          result |-> ControllerError("FailedToSpawnUpdateTask")]
    ELSE LET c1 == [c EXCEPT !.spawned = @ + 1]
             split == try_split(c1)
         IN  IF ~split.ok
             THEN [storage |-> c1, bus |-> <<>>,
                   result |-> ControllerError("AnotherControllerExists")]
             ELSE controller_new_stages([split.storage EXCEPT !.spawned = @ - 1],
                                        cycle_time, env)

\* controller.rs:231-283
controller_new(c, cycle_time, env) ==
    LET split == try_split(c)
    IN  IF ~split.ok
        THEN [storage |-> c, bus |-> <<>>,
              result |-> ControllerError("AnotherControllerExists")]
        ELSE controller_new_stages(split.storage, cycle_time, env)

\* Controller::cycle sleeping for the whole cycle time
controller_cycle_sleep_all(cycle_time, delta, ok) ==
    IF delta > cycle_time THEN <<TxRx(ok)>>
    ELSE <<TxRx(ok), Sleep(cycle_time)>>

\* controller.rs:288-304: the exchange, its result dropped, and the sleep for
\* what is left of the cycle time after delta
controller_cycle(cycle_time, delta, ok) ==
    IF delta > cycle_time THEN <<TxRx(ok)>>
    ELSE <<TxRx(ok), Sleep(cycle_time - delta)>>

\* An environment in which every stage of Controller::new succeeds, with no
\* device on the bus.
Benign ==
    [spawn |-> TRUE, init |-> TRUE, into_op |-> TRUE, bad |-> {},
     group |-> <<>>]

\* One Controller is operational, on the first storage.
Operational ==
    [s \in Storages |->
        IF s = 1 THEN controller_new(Untouched, 2, Benign).storage ELSE Untouched]

----------------------------------------------------------------------------
(* Device::new and Device::reset.                                          *)

\* enable_final without the QuickStop test
enable_final_no_quickstop(o, i, t) ==
    IF /\ get_bit(i, SW_VoltageEnabled, PDO_ControlStatusWord)
       /\ get_bit(i, SW_OperationEnabled, PDO_ControlStatusWord)
    THEN Return(o, t, Ok)
    ELSE IF t = 0 THEN Return(o, t, EnableError("Timeout"))
    ELSE Return(o, t, EnableError("Failed"))

\* device.rs:330-347
enable_final(o, i, t) ==
    IF /\ get_bit(i, SW_VoltageEnabled, PDO_ControlStatusWord)
       /\ get_bit(i, SW_QuickStop, PDO_ControlStatusWord)
       /\ get_bit(i, SW_OperationEnabled, PDO_ControlStatusWord)
    THEN Return(o, t, Ok)
    ELSE IF t = 0 THEN Return(o, t, EnableError("Timeout"))
    ELSE Return(o, t, EnableError("Failed"))

\* enable_operation_loop giving up with one retry left
enable_operation_loop_early(o, i, t) ==
    IF /\ ~(/\ get_bit(i, SW_OperationEnabled, PDO_ControlStatusWord)
            /\ get_bit(i, SW_SwitchedOn, PDO_ControlStatusWord))
       /\ t > 1
    THEN Frame("enable_operation",
               set_bit(set_bit(o, CB_EnableOperation, PDO_ControlStatusWord),
                       CB_SwitchOn, PDO_ControlStatusWord),
               t - 1, NoResult)
    ELSE enable_final(o, i, t)

\* device.rs:313-328: the head of the second loop and its body up to cycle()
enable_operation_loop(o, i, t) ==
    IF /\ ~(/\ get_bit(i, SW_OperationEnabled, PDO_ControlStatusWord)
            /\ get_bit(i, SW_SwitchedOn, PDO_ControlStatusWord))
       /\ t > 0
    THEN Frame("enable_operation",
               set_bit(set_bit(o, CB_EnableOperation, PDO_ControlStatusWord),
                       CB_SwitchOn, PDO_ControlStatusWord),
               t - 1, NoResult)
    ELSE enable_final(o, i, t)

\* enable_voltage_loop handing the second loop a budget of its own
enable_voltage_loop_own_budget(o, i, t) ==
    IF /\ ~(/\ get_bit(i, SW_VoltageEnabled, PDO_ControlStatusWord)
            /\ get_bit(i, SW_QuickStop, PDO_ControlStatusWord))
       /\ t > 0
    THEN Frame("enable_voltage",
               set_bit(set_bit(o, CB_QuickStop, PDO_ControlStatusWord),
                       CB_EnableVoltage, PDO_ControlStatusWord),
               t, NoResult)
    ELSE enable_operation_loop(o, i, EnableTimeout)

\* enable_voltage_loop setting all four enable bits at once
enable_voltage_loop_all_bits(o, i, t) ==
    IF /\ ~(/\ get_bit(i, SW_VoltageEnabled, PDO_ControlStatusWord)
            /\ get_bit(i, SW_QuickStop, PDO_ControlStatusWord))
       /\ t > 0
    THEN Frame("enable_voltage",
               set_bit(set_bit(set_bit(set_bit(o,
                   CB_QuickStop, PDO_ControlStatusWord),
                   CB_EnableVoltage, PDO_ControlStatusWord),
                   CB_EnableOperation, PDO_ControlStatusWord),
                   CB_SwitchOn, PDO_ControlStatusWord),
               t, NoResult)
    ELSE enable_operation_loop(o, i, t)

\* enable_voltage_loop counting down before cycle() as well as after it
enable_voltage_loop_costly(o, i, t) ==
    IF /\ ~(/\ get_bit(i, SW_VoltageEnabled, PDO_ControlStatusWord)
            /\ get_bit(i, SW_QuickStop, PDO_ControlStatusWord))
       /\ t > 0
    THEN Frame("enable_voltage",
               set_bit(set_bit(o, CB_QuickStop, PDO_ControlStatusWord),
                       CB_EnableVoltage, PDO_ControlStatusWord),
               IF t > 1 THEN t - 1 ELSE t, NoResult)
    ELSE enable_operation_loop(o, i, t)

\* device.rs:298-309: the head of the first loop and its body up to cycle()
enable_voltage_loop(o, i, t) ==
    IF /\ ~(/\ get_bit(i, SW_VoltageEnabled, PDO_ControlStatusWord)
            /\ get_bit(i, SW_QuickStop, PDO_ControlStatusWord))
       /\ t > 0
    THEN Frame("enable_voltage",
               set_bit(set_bit(o, CB_QuickStop, PDO_ControlStatusWord),
                       CB_EnableVoltage, PDO_ControlStatusWord),
               t, NoResult)
    ELSE enable_operation_loop(o, i, t)

\* Reset returns r: to its caller, or into Device::new (device.rs:296-297).
reset_return(o, i, t, r, caller) ==
    IF caller = "new"
    THEN IF r.tag = "Ok" THEN enable_voltage_loop(o, i, EnableTimeout)
         ELSE Return(o, t, EnableError_ResetFailed(r))
    ELSE Return(o, t, r)

\* reset_match with the fault-only and warning-only variants exchanged
reset_match_swapped(o, i, t, caller) ==
    LET f == get_bit(i, SW_Fault, PDO_ControlStatusWord)
        w == get_bit(i, SW_Warning, PDO_ControlStatusWord)
    IN  reset_return(o, i, t,
            IF ~f /\ ~w THEN Ok
            ELSE IF ~f /\ w THEN ResetError("ResetFailedFault")
            ELSE IF f /\ ~w THEN ResetError("ResetFailedWarning")
            ELSE ResetError("ResetFailed"),
            caller)

\* device.rs:387-400
reset_match(o, i, t, caller) ==
    LET f == get_bit(i, SW_Fault, PDO_ControlStatusWord)
        w == get_bit(i, SW_Warning, PDO_ControlStatusWord)
    IN  reset_return(o, i, t,
            IF ~f /\ ~w THEN Ok
            ELSE IF ~f /\ w THEN ResetError("ResetFailedWarning")
            ELSE IF f /\ ~w THEN ResetError("ResetFailedFault")
            ELSE ResetError("ResetFailed"),
            caller)

\* reset_loop retrying without setting FaultReset
reset_loop_no_set(o, i, retries, caller) ==
    IF get_error(i) # "Ok" /\ retries > 0
    THEN Frame("reset_retry", o, retries - 1, NoResult)
    ELSE reset_match(o, i, retries, caller)

\* reset_loop toggling FaultReset whatever the status reads
reset_loop_always(o, i, retries, caller) ==
    IF retries > 0
    THEN Frame("reset_retry",
               set_bit(o, CB_FaultReset, PDO_ControlStatusWord),
               retries - 1, NoResult)
    ELSE reset_match(o, i, retries, caller)

\* device.rs:376-382: the head of the retry loop and its body up to cycle()
reset_loop(o, i, retries, caller) ==
    IF get_error(i) # "Ok" /\ retries > 0
    THEN Frame("reset_retry",
               set_bit(o, CB_FaultReset, PDO_ControlStatusWord),
               retries - 1, NoResult)
    ELSE reset_match(o, i, retries, caller)

\* reset_enter without the exchange of the empty frame
reset_enter_no_cycle(o, i, t, caller) ==
    IF ~Available
    THEN reset_return(o, i, t, ResetError("DeviceInUse"), caller)
    ELSE reset_loop(fill0(o), i, ResetRetries, caller)

\* device.rs:363-373
reset_enter(o, i, t, caller) ==
    IF ~Available
    THEN reset_return(o, i, t, ResetError("DeviceInUse"), caller)
    ELSE Frame("reset_first", fill0(o), t, NoResult)

----------------------------------------------------------------------------
(* Device::disable.                                                        *)

\* struct Timeout
Timeout == [tag |-> "Timeout"]

\* device.rs:616-620
disable_return(o, t) ==
    IF t = 0 THEN Return(o, t, Timeout) ELSE Return(o, t, Ok)

\* disable_poll polling once more after the budget is used up
disable_poll_once_more(o, i, t) ==
    IF get_bit(i, SW_OperationEnabled, PDO_ControlStatusWord) /\ t >= 0
    THEN Frame("disable_poll", o, t - 1, NoResult)
    ELSE disable_return(o, t)

\* device.rs:608-615: the head of the poll loop and its body up to cycle()
disable_poll(o, i, t) ==
    IF get_bit(i, SW_OperationEnabled, PDO_ControlStatusWord) /\ t > 0
    THEN Frame("disable_poll", o, t - 1, NoResult)
    ELSE disable_return(o, t)

\* device.rs:601-607: after the first cycle, QuickStop and EnableVoltage cleared
disable_after_first(o, i) ==
    disable_poll(
        unset_bit(unset_bit(o, CB_QuickStop, PDO_ControlStatusWord),
                  CB_EnableVoltage, PDO_ControlStatusWord),
        i, DisableTimeout)

\* device.rs:594-600: EnableOperation and SwitchOn cleared, then cycle()
disable_enter(o) ==
    Frame("disable_first",
          unset_bit(unset_bit(o, CB_EnableOperation, PDO_ControlStatusWord),
                    CB_SwitchOn, PDO_ControlStatusWord),
          0, NoResult)

----------------------------------------------------------------------------
(* Steps.                                                                  *)

\* The task moves to frame f.
Goto(f) ==
    /\ pc' = f.pc
    /\ out' = f.out
    /\ timeout' = f.timeout
    /\ result' = f.result

\* A call is made: the history of the call starts afresh.
BeginLogged(o, f, max, b) ==
    /\ pc = "idle"
    /\ calls < max
    /\ calls' = calls + 1
    /\ op' = o
    /\ Goto(f)
    /\ cycles' = 0
    /\ n1' = 0
    /\ n2' = 0
    /\ frSet' = FALSE
    /\ sawOE' = FALSE
    /\ okAll' = TRUE
    /\ prev' = [name |-> op.name, result |-> result, okAll |-> okAll]
    /\ cw0' = Controlword(out)
    /\ sentC4' = FALSE
    /\ bus' = b
    /\ UNCHANGED <<id, inp, sim, ctl>>

Begin(o, f, max) == BeginLogged(o, f, max, bus)

\* One cycle() exchange: the drive answers i, the task runs on to frame f;
\* d1 and d2 count the exchange for the enable loops.
Exchange(i, f, d1, d2) ==
    /\ inp' = i
    /\ Goto(f)
    /\ cycles' = cycles + 1
    /\ n1' = n1 + d1
    /\ n2' = n2 + d2
    /\ frSet' = (frSet \/ Control(f.out, CB_FaultReset))
    /\ sawOE' = (sawOE \/ Status(i, SW_OperationEnabled))
    /\ okAll' = (okAll /\ ~FW(i))
    /\ UNCHANGED <<id, op, sim, calls, prev, mis0, sawMode, ctl, bus, cw0, sentC4>>

\* A handle exists once Device::new has returned Ok.
LiveAfter(name, f) ==
    IF name = "new" /\ f.pc = "idle" THEN f.result = Ok ELSE live

\* Device::new(controller, id), made once
CallNew ==
    /\ calls = 0
    /\ LET f == reset_enter(out, inp, 0, "new")
       IN  /\ Begin([name |-> "new"], f, MaxCalls)
           /\ live' = LiveAfter("new", f)
           /\ UNCHANGED <<mis0, sawMode>>

\* Device::reset(&mut self) on a handle
CallReset ==
    /\ live
    /\ Begin([name |-> "reset"], reset_enter(out, inp, 0, "reset"), MaxCalls)
    /\ UNCHANGED <<live, mis0, sawMode>>

\* device.rs:373-375: the exchange of the empty frame
ResetFirstCycle ==
    /\ pc = "reset_first"
    /\ \E i \in Responses(0) :
        LET f == reset_loop(out, i, ResetRetries, op.name)
        IN  Exchange(i, f, 0, 0) /\ live' = LiveAfter(op.name, f)

\* device.rs:382-383: an exchange of the retry loop, then FaultReset cleared
ResetRetryCycle ==
    /\ pc = "reset_retry"
    /\ \E i \in Responses(0) :
        LET f == reset_loop(unset_bit(out, CB_FaultReset, PDO_ControlStatusWord),
                            i, timeout, op.name)
        IN  Exchange(i, f, 0, 0) /\ live' = LiveAfter(op.name, f)

\* device.rs:309-310: an exchange of the first enable loop
EnableVoltageCycle ==
    /\ pc = "enable_voltage"
    /\ \E i \in Responses(n1 + n2 + 1) :
        LET f == enable_voltage_loop(out, i, timeout - 1)
        IN  Exchange(i, f, 1, 0) /\ live' = LiveAfter(op.name, f)

\* device.rs:327: an exchange of the second enable loop
EnableOperationCycle ==
    /\ pc = "enable_operation"
    /\ \E i \in Responses(n1 + n2 + 1) :
        LET f == enable_operation_loop(out, i, timeout)
        IN  Exchange(i, f, 0, 1) /\ live' = LiveAfter(op.name, f)

\* Device::disable(mut self): the handle is given up with the call
CallDisable ==
    /\ live
    /\ sim = Free
    /\ Begin([name |-> "disable"], disable_enter(out), MaxCalls)
    /\ live' = FALSE
    /\ UNCHANGED <<mis0, sawMode>>

\* device.rs:600: the exchange that carries EnableOperation and SwitchOn cleared
DisableFirstCycle ==
    /\ pc = "disable_first"
    /\ \E i \in EnableInputs :
        Exchange(i, disable_after_first(out, i), 0, 0) /\ UNCHANGED live

\* device.rs:614: an exchange of the poll loop
DisablePollCycle ==
    /\ pc = "disable_poll"
    /\ \E i \in EnableInputs :
        Exchange(i, disable_poll(out, i, timeout), 0, 0) /\ UNCHANGED live

\* The last device of the group, and the first index past it.
DeviceIds == {GroupLen - 1, GroupLen}

NoCall == [name |-> "none"]

InitHistory ==
    /\ calls = 0
    /\ cycles = 0
    /\ n1 = 0
    /\ n2 = 0
    /\ frSet = FALSE
    /\ sawOE = FALSE
    /\ okAll = TRUE
    /\ prev = [name |-> "none", result |-> NoResult, okAll |-> TRUE]
    /\ mis0 = FALSE
    /\ sawMode = FALSE
    /\ cw0 = 0
    /\ sentC4 = FALSE
    /\ bus = <<>>

\* The controller is operational, both images still zeroed, no handle yet.
InitEnable ==
    /\ id \in DeviceIds
    /\ out = Zeros(OutLen)
    /\ inp = Input(0, 0)
    /\ pc = "idle"
    /\ op = NoCall
    /\ timeout = 0
    /\ result = NoResult
    /\ live = FALSE
    /\ sim \in {Free} \cup Simulated
    /\ ctl = Operational
    /\ InitHistory

NextEnable ==
    \/ CallNew
    \/ CallReset
    \/ ResetFirstCycle
    \/ ResetRetryCycle
    \/ EnableVoltageCycle
    \/ EnableOperationCycle
    \/ CallDisable
    \/ DisableFirstCycle
    \/ DisablePollCycle

SpecEnable == InitEnable /\ [][NextEnable]_vars

----------------------------------------------------------------------------
(* Device::new and Device::reset: what they return and when.               *)

\* The call `name` has returned.
Done(name) == pc = "idle" /\ op.name = name

\* Device::new has returned and its Reset had passed.
EnableDone == Done("new") /\ result.tag # "ResetFailed"

\* C3, as stated: for a simulated drive that shows VoltageEnabled and QuickStop
\* after N enable cycles and OperationEnabled and SwitchedOn after M more, with
\* N and M each below the retry budget, Device::new returns Ok after at least
\* N + M calls of cycle().
C3_Original ==
    (EnableDone /\ sim.kind = "sim"
        /\ sim.n < EnableTimeout /\ sim.m < EnableTimeout)
    => (result = Ok /\ cycles >= sim.n + sim.m)

\* C3, amended: the two loops draw on one budget, so it is N + M that must not
\* exceed it; then Device::new returns Ok after at least N + M calls of cycle().
C3_EnableWithinBudget ==
    (EnableDone /\ sim.kind = "sim" /\ sim.n + sim.m <= EnableTimeout)
    => (result = Ok /\ cycles >= sim.n + sim.m)

C3_Witness ==
    /\ EnableDone /\ sim.kind = "sim" /\ sim.n > 0 /\ sim.m > 0
    /\ sim.n + sim.m = EnableTimeout
    /\ n1 = sim.n /\ n2 = sim.m /\ result = Ok

\* C4: a drive that passes Reset and never shows OperationEnabled makes
\* Device::new return Timeout, and Timeout is returned only with the retry
\* counter at 0, the enable loops having made the full budget of cycle() calls.
C4_TimeoutOnlyWhenExhausted ==
    EnableDone =>
        /\ ~sawOE => result = EnableError("Timeout")
        /\ result.tag = "Timeout" =>
            (timeout = 0 /\ n1 + n2 = EnableTimeout /\ result.device = id)

C4_Witness ==
    /\ EnableDone /\ ~sawOE /\ result.tag = "Timeout"
    /\ n1 > 0 /\ n2 > 0 /\ n1 + n2 = EnableTimeout

\* VoltageEnabled, QuickStop and OperationEnabled all show in image i.
AllThree(i) ==
    /\ Status(i, SW_VoltageEnabled)
    /\ Status(i, SW_QuickStop)
    /\ Status(i, SW_OperationEnabled)

\* C5: after a successful Reset, Device::new returns Ok exactly when the three
\* bits all read true once the loops have ended; otherwise Timeout with the
\* counter at 0 and Failed with the counter above 0.
C5_EnableOutcome ==
    EnableDone =>
        /\ result = Ok <=> AllThree(inp)
        /\ (~AllThree(inp) /\ timeout = 0) => result = EnableError("Timeout")
        /\ (~AllThree(inp) /\ timeout > 0) => result = EnableError("Failed")

\* Failed: the second loop ended on OperationEnabled and SwitchedOn with
\* budget left, and QuickStop had dropped.
C5_Witness ==
    /\ EnableDone /\ result = EnableError("Failed") /\ n2 > 0 /\ timeout > 0
    /\ Status(inp, SW_OperationEnabled) /\ ~Status(inp, SW_QuickStop)

\* The scenario of C6: device 2, made from the initial all-zero statusword;
\* Reset without FaultReset; two cycles of the first loop, three of the
\* second, ending with all four bits shown.
C6_Scenario ==
    /\ Done("new") /\ id = 2 /\ ~frSet
    /\ n1 = 2 /\ n2 = 3
    /\ AllThree(inp) /\ Status(inp, SW_SwitchedOn)

\* C6, as stated: in the scenario Device::new succeeds after exactly 5 calls
\* of cycle() in total.
C6_Original == C6_Scenario => (result = Ok /\ cycles = 5)

\* C6, amended: in the scenario Device::new succeeds after exactly 6 calls of
\* cycle(): the one of Reset's empty frame, then the 5 of the enable loops.
C6_SixCycles ==
    C6_Scenario => (result = Ok /\ cycles = 6 /\ cycles - (n1 + n2) = 1)

C6_Witness == C6_Scenario /\ result = Ok /\ calls = 1

\* The error Reset owes for the Fault and Warning bits of image i.
ResetOutcome(i) ==
    IF Status(i, SW_Fault)
    THEN IF Status(i, SW_Warning)
         THEN [tag |-> "ResetFailed", device |-> id]
         ELSE [tag |-> "ResetFailedFault", device |-> id]
    ELSE IF Status(i, SW_Warning)
         THEN [tag |-> "ResetFailedWarning", device |-> id]
         ELSE [tag |-> "Ok"]

\* C7: Reset on an available device sends an all-zero output image in its
\* first exchange, makes at most the retry budget of further exchanges, and
\* returns Ok exactly when Fault and Warning both read false at the end,
\* otherwise the variant for the bits still set, with the device id, and
\* that only with the retries used up.
C7_ResetOutcome ==
    /\ pc = "reset_first" => (out = Zeros(OutLen) /\ cycles = 0)
    /\ (Done("reset") /\ Available) =>
        /\ cycles >= 1 /\ cycles <= 1 + ResetRetries
        /\ result = ResetOutcome(inp)
        /\ result # Ok => (timeout = 0 /\ cycles = 1 + ResetRetries)
    /\ (Done("new") /\ Available /\ result.tag = "ResetFailed") =>
        /\ result.error = ResetOutcome(inp)
        /\ result.error # Ok
        /\ cycles = 1 + ResetRetries

C7_Witness ==
    /\ Done("reset") /\ Available
    /\ result = [tag |-> "ResetFailedWarning", device |-> id]
    /\ cycles = 1 + ResetRetries

\* C8: Reset twice in a row on a drive whose status stays Ok returns Ok both
\* times, and the second call makes exactly one cycle() and never sets
\* FaultReset.
C8_ResetTwice ==
    (Done("reset") /\ prev.name = "reset" /\ prev.okAll /\ okAll) =>
        /\ prev.result = Ok
        /\ result = Ok
        /\ cycles = 1
        /\ ~frSet
        /\ ~Control(out, CB_FaultReset)

C8_Witness ==
    /\ Done("reset") /\ prev.name = "reset" /\ prev.okAll /\ okAll
    /\ result = Ok /\ cycles = 1

----------------------------------------------------------------------------
(* Servo: home, jog, jog_stop and move_position, and Device::set_mode.     *)

Unit == [tag |-> "Unit"]

\* SetModeError(id, mode), as HomingError, JoggingError or MovementError wrap it
SetModeError(mode) == [tag |-> "SetMode", device |-> id, mode |-> mode]

\* HomingError::DeviceDisabled, JoggingError::DeviceDisabled
DeviceDisabled == [tag |-> "DeviceDisabled", device |-> id]

\* MovementError::DriveDisabled
DriveDisabled == [tag |-> "DriveDisabled", device |-> id]

\* MovementError::Ethercat
Ethercat == [tag |-> "Ethercat"]

\* The calls that switch the mode, and the mode each asks for.
ModeCalls == {"home", "jog_positive", "jog_negative", "move_position"}

\* move_position, and the calls that end in it.
MoveCalls ==
    {"move_position", "move_position_velocity",
     "move_position_velocity_acceleration"}

ModeOf(c) ==
    IF c.name = "home" THEN Homing
    ELSE IF c.name \in MoveCalls THEN ProfilePosition
    ELSE Jog

\* FullControlMovementError::MovementFailed
MovementFailed(e) == [tag |-> "MovementFailed", error |-> e]

\* servo.rs:496-498: the result of move_position_velocity, its error mapped
map_err_MovementFailed(f) ==
    IF f.pc = "idle" /\ f.result # Ok
    THEN [f EXCEPT !.result = MovementFailed(@)]
    ELSE f

\* Where call c goes from f, a frame of the move_position it ends in.
Mapped(c, f) ==
    IF c.name = "move_position_velocity_acceleration"
    THEN map_err_MovementFailed(f)
    ELSE f

\* The bytes of an i32 high byte first
to_be_bytes(target) ==
    LET v == IF target >= 0 THEN target ELSE -target - 1
        b(k) == (v \div (256 ^ (4 - k))) % 256
    IN  [k \in 1 .. 4 |-> IF target >= 0 THEN b(k) ELSE 255 - b(k)]

\* target.to_le_bytes() of an i32: two's complement, low byte first.  The
\* bytes of a negative target are the complemented bytes of -target - 1.
to_le_bytes(target) ==
    LET v == IF target >= 0 THEN target ELSE -target - 1
        b(k) == (v \div (256 ^ (k - 1))) % 256
    IN  [k \in 1 .. 4 |-> IF target >= 0 THEN b(k) ELSE 255 - b(k)]

\* set_position copying one byte more than the field is wide
set_position_wide(o, target, byte) ==
    IF ~Available THEN [ok |-> FALSE, out |-> o]
    ELSE [ok |-> TRUE,
          out |-> [k \in 1 .. Len(o) |->
                    IF k - 1 >= byte /\ k - 1 < byte + 4
                    THEN to_le_bytes(target)[k - byte]
                    ELSE IF k - 1 = byte + 4
                    THEN (IF target >= 0 THEN 0 ELSE 255)
                    ELSE o[k]]]

\* servo.rs:506-519: Ok with the image written, or the lookup's error
set_position(o, target, byte) ==
    IF ~Available THEN [ok |-> FALSE, out |-> o]
    ELSE [ok |-> TRUE,
          out |-> [k \in 1 .. Len(o) |->
                    IF k - 1 >= byte /\ k - 1 < byte + 4
                    THEN to_le_bytes(target)[k - byte]
                    ELSE o[k]]]

\* move_complete_wait leaving the control bits as they are
move_complete_wait_keep(o, i, t) ==
    IF ~get_bit(i, SW_MotionComplete, PDO_ControlStatusWord)
    THEN Frame("move_complete", o, t, NoResult)
    ELSE Return(o, t, Ok)

\* servo.rs:405-424: the head of the MotionComplete wait, its body up to cycle()
move_complete_wait(o, i, t) ==
    IF ~get_bit(i, SW_MotionComplete, PDO_ControlStatusWord)
    THEN Frame("move_complete", unset_control(o), t, NoResult)
    ELSE Return(o, t, Ok)

\* move_ack_wait going on to the MotionComplete wait without the acknowledge
move_ack_wait_skip(o, i, t) == move_complete_wait(o, i, t)

\* servo.rs:396-401: the head of the acknowledge wait
move_ack_wait(o, i, t) ==
    IF ~get_bit(i, SW_AckStartRefReached, PDO_ControlStatusWord)
    THEN Frame("move_ack", o, t, NoResult)
    ELSE move_complete_wait(o, i, t)

\* servo.rs:386-392: after the latching cycle, Halt cleared and Control4 set
move_start(o, i, t) ==
    move_ack_wait(
        set_bit(unset_bit(o, CB_Halt, PDO_ControlStatusWord),
                CB_Control4, PDO_ControlStatusWord),
        i, t)

\* move_after_mode that never sets the relative-positioning flag
move_after_mode_no_flag(o, i, t, target, movement) ==
    LET w == set_position(unset_control(o), target, PDO_Position)
    IN  IF w.ok THEN Frame("move_latch", w.out, t, NoResult)
        ELSE Return(w.out, t, Ethercat)

\* move_after_mode raising the start bit together with the target
move_after_mode_start_early(o, i, t, target, movement) ==
    LET o1 == unset_control(o)
        o2 == IF movement = "Relative"
              THEN set_bit(o1, CB_Control6, PDO_ControlStatusWord)
              ELSE o1
        w  == set_position(set_bit(o2, CB_Control4, PDO_ControlStatusWord),
                           target, PDO_Position)
    IN  IF w.ok THEN Frame("move_latch", w.out, t, NoResult)
        ELSE Return(w.out, t, Ethercat)

\* servo.rs:370-384: from the mode switch to the latching cycle
move_after_mode(o, i, t, target, movement) ==
    LET o1 == unset_control(o)
        o2 == IF movement = "Relative"
              THEN set_bit(o1, CB_Control6, PDO_ControlStatusWord)
              ELSE o1
        w  == set_position(o2, target, PDO_Position)
    IN  IF w.ok THEN Frame("move_latch", w.out, t, NoResult)
        ELSE Return(w.out, t, Ethercat)

\* jog_wait raising the bit of the other direction
jog_wait_swapped(o, i, t, name) ==
    IF ~get_bit(i, SW_MotionComplete, PDO_ControlStatusWord)
    THEN Frame("jog_complete", o, t, NoResult)
    ELSE Return(set_bit(o,
                    IF name = "jog_positive" THEN CB_Control5 ELSE CB_Control4,
                    PDO_ControlStatusWord),
                t, Ok)

\* servo.rs:263-278: the head of the MotionComplete wait, then the direction
jog_wait(o, i, t, name) ==
    IF ~get_bit(i, SW_MotionComplete, PDO_ControlStatusWord)
    THEN Frame("jog_complete", o, t, NoResult)
    ELSE Return(set_bit(o,
                    IF name = "jog_positive" THEN CB_Control4 ELSE CB_Control5,
                    PDO_ControlStatusWord),
                t, Ok)

\* servo.rs:259-260
jog_after_mode(o, i, t, name) == jog_wait(unset_control(o), i, t, name)

\* home_wait counting its exchanges and giving up after the first
home_wait_budget(o, i, t) ==
    IF ~get_bit(i, SW_AckStartRefReached, PDO_ControlStatusWord) /\ t < 1
    THEN Frame("home_ack", o, t + 1, NoResult)
    ELSE Return(unset_bit(o, CB_Control4, PDO_ControlStatusWord), t, Ok)

\* home_wait returning with the start bit still set
home_wait_keep_start(o, i, t) ==
    IF ~get_bit(i, SW_AckStartRefReached, PDO_ControlStatusWord)
    THEN Frame("home_ack", o, t, NoResult)
    ELSE Return(o, t, Ok)

\* servo.rs:227-239: the head of the acknowledge wait, then Control4 cleared
home_wait(o, i, t) ==
    IF ~get_bit(i, SW_AckStartRefReached, PDO_ControlStatusWord)
    THEN Frame("home_ack", o, t, NoResult)
    ELSE Return(unset_bit(o, CB_Control4, PDO_ControlStatusWord), t, Ok)

\* home_after_mode skipping the start sequence whenever the drive is homed
home_after_mode_ignore_always(o, i, t, always) ==
    IF get_bit(i, SW_DriveHomed, PDO_ControlStatusWord)
    THEN Return(o, t, Ok)
    ELSE home_wait(set_bit(unset_control(o), CB_Control4, PDO_ControlStatusWord),
                   i, t)

\* servo.rs:213-226
home_after_mode(o, i, t, always) ==
    IF get_bit(i, SW_DriveHomed, PDO_ControlStatusWord) /\ ~always
    THEN Return(o, t, Ok)
    ELSE home_wait(set_bit(unset_control(o), CB_Control4, PDO_ControlStatusWord),
                   i, t)

\* The caller's code after set_mode has returned Ok.
after_mode(o, i, t, c) ==
    IF c.name = "home" THEN home_after_mode(o, i, t, c.always)
    ELSE IF c.name \in MoveCalls
    THEN move_after_mode(o, i, t, c.target, c.movement)
    ELSE jog_after_mode(o, i, t, c.name)

\* set_mode_check without the test of the mode echo
set_mode_check_no_test(o, i, t, c) == after_mode(unset_control(o), i, t, c)

\* device.rs:573-587: the test after the loop
set_mode_check(o, i, t, c) ==
    IF Available /\ At(i, PDO_OperationMode) # ModeOf(c)
    THEN Return(o, t, SetModeError(ModeOf(c)))
    ELSE after_mode(unset_control(o), i, t, c)

\* device.rs:553-571: the head of the loop and its body up to cycle()
set_mode_loop(o, i, t, c) ==
    IF t > 0 /\ Available /\ At(i, PDO_OperationMode) = ModeOf(c)
    THEN Frame("set_mode",
               LET o1 == unset_control(o)
               IN  IF Available THEN Put(o1, PDO_OperationMode, ModeOf(c))
                   ELSE o1,
               t - 1, NoResult)
    ELSE set_mode_check(o, i, t, c)

\* device.rs:549-550
set_mode(o, i, c) == set_mode_loop(o, i, ModeTimeout, c)

\* motion_enter clearing the control bits before the enabled test
motion_enter_clear_first(o, i, c) ==
    IF ~ready_state(i)
    THEN Return(unset_control(o), 0,
                IF c.name \in MoveCalls THEN DriveDisabled
                ELSE DeviceDisabled)
    ELSE set_mode(unset_control(o), i, c)

\* servo.rs:203-211, 249-257, 361-368: the enabled test, then the mode switch
motion_enter(o, i, c) ==
    IF ~ready_state(i)
    THEN Return(o, 0, IF c.name \in MoveCalls THEN DriveDisabled
                      ELSE DeviceDisabled)
    ELSE set_mode(o, i, c)

\* jog_stop_wait returning without reading MotionComplete
jog_stop_wait_no_poll(o, i, t) == Return(o, t, Unit)

\* servo.rs:321-326
jog_stop_wait(o, i, t) ==
    IF ~get_bit(i, SW_MotionComplete, PDO_ControlStatusWord)
    THEN Frame("jog_stop_complete", o, t, NoResult)
    ELSE Return(o, t, Unit)

\* jog_stop_enter without the enabled test
jog_stop_enter_no_check(o, i) == jog_stop_wait(unset_control(o), i, 0)

\* servo.rs:308-319
jog_stop_enter(o, i) ==
    IF ~ready_state(i) THEN Return(o, 0, Unit)
    ELSE jog_stop_wait(unset_control(o), i, 0)

----------------------------------------------------------------------------
(* The drive during motion calls, and the steps of the calls.              *)

MotionBits ==
    {SW_OperationEnabled, SW_MotionComplete, SW_AckStartRefReached,
     SW_DriveHomed}

EchoModes == {ProfilePosition, Homing, Jog}

MotionInputs ==
    {Input(BitsValue(S), e) : S \in SUBSET MotionBits, e \in EchoModes}

Targets == {-2, 258}

Movements == {"Relative", "Absolute"}

MotionExchange(i, f) ==
    /\ cycles < MaxCycles
    /\ inp' = i
    /\ Goto(f)
    /\ cycles' = cycles + 1
    /\ sawMode' = (sawMode \/ At(i, PDO_OperationMode) = ModeOf(op))
    /\ sentC4' = (sentC4 \/ (/\ pc \in {"home_ack", "move_ack"}
                              /\ Control(out, CB_Control4)))
    /\ UNCHANGED <<id, op, sim, calls, prev, live, n1, n2, frSet, sawOE,
                   okAll, mis0, ctl, bus, cw0>>

\* A call c that switches the mode.
MotionCall(c) ==
    /\ live
    /\ Begin(c, motion_enter(out, inp, c), MaxMotionCalls)
    /\ mis0' = (At(inp, PDO_OperationMode) # ModeOf(c))
    /\ sawMode' = FALSE
    /\ UNCHANGED live

CallHome == \E always \in BOOLEAN : MotionCall([name |-> "home", always |-> always])

CallJog == \E n \in {"jog_positive", "jog_negative"} : MotionCall([name |-> n])

CallMovePosition ==
    \E target \in Targets, movement \in Movements :
        MotionCall([name |-> "move_position", target |-> target,
                    movement |-> movement])

CallJogStop ==
    /\ live
    /\ Begin([name |-> "jog_stop"], jog_stop_enter(out, inp), MaxMotionCalls)
    /\ mis0' = FALSE
    /\ sawMode' = FALSE
    /\ UNCHANGED live

\* device.rs:571: an exchange of the mode switch
SetModeCycle ==
    /\ pc = "set_mode"
    /\ \E i \in MotionInputs :
        MotionExchange(i, Mapped(op, set_mode_loop(out, i, timeout, op)))

\* servo.rs:232
HomeAckCycle ==
    /\ pc = "home_ack"
    /\ \E i \in MotionInputs : MotionExchange(i, home_wait(out, i, timeout))

\* servo.rs:267
JogCompleteCycle ==
    /\ pc = "jog_complete"
    /\ \E i \in MotionInputs :
        MotionExchange(i, jog_wait(out, i, timeout, op.name))

\* servo.rs:325
JogStopCycle ==
    /\ pc = "jog_stop_complete"
    /\ \E i \in MotionInputs : MotionExchange(i, jog_stop_wait(out, i, timeout))

\* servo.rs:384: the exchange that latches the target
MoveLatchCycle ==
    /\ pc = "move_latch"
    /\ \E i \in MotionInputs : MotionExchange(i, move_start(out, i, timeout))

\* servo.rs:400
MoveAckCycle ==
    /\ pc = "move_ack"
    /\ \E i \in MotionInputs : MotionExchange(i, move_ack_wait(out, i, timeout))

\* servo.rs:419
MoveCompleteCycle ==
    /\ pc = "move_complete"
    /\ \E i \in MotionInputs :
        MotionExchange(i, move_complete_wait(out, i, timeout))

\* The controlwords Device::new can leave behind when it returns Ok: each
\* enable loop sets its two bits only if it runs at all.
EnabledControlwords ==
    {BitsValue(S) : S \in {{}, {CB_QuickStop, CB_EnableVoltage},
                           {CB_EnableOperation, CB_SwitchOn},
                           {CB_QuickStop, CB_EnableVoltage,
                            CB_EnableOperation, CB_SwitchOn}}}

\* The images Device::new can return Ok on.
EnabledInputs ==
    {Input(BitsValue(S \cup {SW_VoltageEnabled, SW_QuickStop,
                             SW_OperationEnabled}), e) :
        S \in SUBSET (MotionBits \ {SW_OperationEnabled}), e \in EchoModes}

\* Device::new has just returned Ok: a handle on the last device of the group.
InitMotion ==
    /\ id = GroupLen - 1
    /\ out \in {Put(Zeros(OutLen), 0, cw) : cw \in EnabledControlwords}
    /\ inp \in EnabledInputs
    /\ pc = "idle"
    /\ op = [name |-> "new"]
    /\ timeout = 0
    /\ result = Ok
    /\ live = TRUE
    /\ sim = Free
    /\ ctl = Operational
    /\ InitHistory

NextMotion ==
    \/ CallHome
    \/ CallJog
    \/ CallJogStop
    \/ CallMovePosition
    \/ SetModeCycle
    \/ HomeAckCycle
    \/ JogCompleteCycle
    \/ JogStopCycle
    \/ MoveLatchCycle
    \/ MoveAckCycle
    \/ MoveCompleteCycle

SpecMotion == InitMotion /\ [][NextMotion]_vars

----------------------------------------------------------------------------
(* The mode switch and the enabled test of the motion calls.               *)

Disabled(r) == r.tag \in {"DeviceDisabled", "DriveDisabled"}

\* A call that switches the mode found the device enabled, so it did call
\* set_mode, and the mode echo differed from the mode it asked for.
SwitchFromOtherMode ==
    op.name \in ModeCalls /\ Available /\ mis0 /\ ~Disabled(result)

\* C1: the mode switch, called on an available device that echoes another
\* mode, writes the mode asked to output byte 2 and then polls, one cycle()
\* per iteration; if the echo becomes the mode asked within the budget, the
\* mode switch succeeds.
C1_ModeSwitchWritesAndPolls ==
    SwitchFromOtherMode =>
        /\ At(out, PDO_OperationMode) = ModeOf(op)
        /\ pc = "idle" =>
            /\ cycles >= 1
            /\ sawMode => result.tag # "SetMode"

\* C2: for an enabled, available device that never echoes the mode asked,
\* every motion call fails with the mode-switch error, with the device id and
\* the mode asked, after exactly the retry budget of cycle() calls.
C2_ModeSwitchFailsAfterBudget ==
    (pc = "idle" /\ SwitchFromOtherMode /\ ~sawMode) =>
        /\ result = SetModeError(ModeOf(op))
        /\ cycles = ModeTimeout

\* A motion call is made in this step.
Calling(names) == pc = "idle" /\ calls' = calls + 1 /\ op'.name \in names

\* C9: home, jog_positive, jog_negative and move_position, called while
\* OperationEnabled reads false, return the disabled error with the device
\* id at once: no cycle(), no mode switch, no byte of the output image changed.
C9_DisabledCallReturnsAtOnce ==
    [][(Calling(ModeCalls) /\ ~Status(inp, SW_OperationEnabled)) =>
        /\ pc' = "idle"
        /\ result' = [tag |-> IF op'.name = "move_position"
                              THEN "DriveDisabled" ELSE "DeviceDisabled",
                      device |-> id]
        /\ out' = out
        /\ inp' = inp
        /\ cycles' = 0
        /\ timeout' = 0]_vars

\* A disabled call made with Control4 still set by an earlier jog.
C9_Witness ==
    /\ pc = "idle" /\ op.name \in ModeCalls /\ Disabled(result)
    /\ ~Status(inp, SW_OperationEnabled)
    /\ Control(out, CB_Control4)

\* C10: jog_stop, called while OperationEnabled reads false, returns at
\* once: no cycle(), no error, the output image unchanged.
C10_JogStopDisabledIsNoOp ==
    [][(Calling({"jog_stop"}) /\ ~Status(inp, SW_OperationEnabled)) =>
        /\ pc' = "idle"
        /\ result' = Unit
        /\ out' = out
        /\ inp' = inp
        /\ cycles' = 0]_vars

\* jog_stop on a disabled device with a jog direction bit still set.
C10_Witness ==
    /\ Done("jog_stop") /\ result = Unit /\ cycles = 0
    /\ ~Status(inp, SW_OperationEnabled)
    /\ (Control(out, CB_Control4) \/ Control(out, CB_Control5))

----------------------------------------------------------------------------
(* move_position and home: the relative flag, the start bit, the cycles.   *)

Moving == op.name = "move_position"

\* C11: at the exchange that latches the target, Control6 is set in the
\* output image when the move is Relative and clear when it is Absolute,
\* whatever the controlword held before the call.
C11_LatchRelativeFlag ==
    (Moving /\ pc = "move_latch") =>
        (Control(out, CB_Control6) <=> op.movement = "Relative")

\* An Absolute move latching after a call that left Control6 set.
C11_Witness ==
    /\ Moving /\ pc = "move_latch" /\ op.movement = "Absolute"
    /\ BitOf(cw0, CB_Control6)
    /\ ~Control(out, CB_Control6)

\* C12, as claimed: in a Relative move Control6 is set from before the
\* target write until move_position returns, the MotionComplete wait included.
C12_Original ==
    (Moving /\ op.movement = "Relative"
        /\ pc \in {"move_latch", "move_ack", "move_complete"}) =>
        Control(out, CB_Control6)

\* C12, amended: in a Relative move Control6 is set when the target is
\* written and stays set through the latching exchange and the acknowledge
\* wait; every exchange of the MotionComplete wait carries it cleared.
C12_RelativeFlagUntilAcknowledged ==
    (Moving /\ op.movement = "Relative") =>
        /\ pc \in {"move_latch", "move_ack"} => Control(out, CB_Control6)
        /\ pc = "move_complete" => ~Control(out, CB_Control6)

\* A Relative move in its MotionComplete wait.
C12_Witness ==
    /\ Moving /\ op.movement = "Relative" /\ pc = "move_complete"
    /\ ~Control(out, CB_Control6)

\* C13: in every move_position Control4 is clear in the output image when
\* the target is written and during the exchange that latches it, and is
\* raised only after that exchange, also when an earlier move left it set.
C13_StartAfterLatch ==
    Moving =>
        /\ pc \in {"set_mode", "move_latch"} => ~Control(out, CB_Control4)
        /\ pc = "move_ack" => Control(out, CB_Control4)

\* A move latching its target right after a move that left Control4 set.
C13_Witness ==
    /\ Moving /\ pc = "move_latch"
    /\ prev.name = "move_position" /\ prev.result = Ok
    /\ BitOf(cw0, CB_Control4)
    /\ ~Control(out, CB_Control4)

\* home ran its start sequence: it was asked to home always, or DriveHomed
\* read false.
HomeStarted == op.name = "home" /\ (op.always \/ ~Status(inp, SW_DriveHomed))

\* C19: home, once it has raised Control4, and move_position do not return
\* Ok without at least one cycle() exchange that carried Control4 set to the
\* drive after it was raised.
C19_StartGatedByCycle ==
    (pc = "idle" /\ result = Ok /\ (Moving \/ HomeStarted)) => sentC4

----------------------------------------------------------------------------
(* The accessor on its own: set_bit, unset_bit, get_bit, get_16 of Device  *)
(* and get_position, set_position, set_profile_velocity of Servo, applied  *)
(* to images and arguments drawn from small sets, the image lookup         *)
(* succeeding (id in the group) or failing (id past it).                   *)

\* The byte set_bit returns: the new value of the byte, or 0
set_bit_value(o, bit, byte) ==
    IF ~Available THEN 0
    ELSE At(set_bit(o, bit, byte), (byte + bit \div 8) % Len(o))

\* The byte unset_bit returns
unset_bit_value(o, bit, byte) ==
    IF ~Available THEN 0
    ELSE At(unset_bit(o, bit, byte), (byte + bit \div 8) % Len(o))

\* Ok(value) of a Result
OkValue(v) == [tag |-> "Ok", value |-> v]

\* A plain return value
Value(v) == [tag |-> "Value", value |-> v]

\* get_16 answering 0 when the lookup fails
get_16_default(i, byte) ==
    IF ~Available THEN OkValue(0)
    ELSE OkValue(At(i, byte) + 256 * At(i, byte + 1))

\* device.rs:532-540
get_16(i, byte) ==
    IF ~Available THEN Ethercat
    ELSE OkValue(At(i, byte) + 256 * At(i, byte + 1))

\* A u32, kept as its two 16-bit halves.
U32(b0, b1, b2, b3) == [lo |-> b0 + 256 * b1, hi |-> b2 + 256 * b3]

\* servo.rs:173-194: input bytes 3..6, byte k shifted left by 8k, summed
get_position(i) ==
    IF ~Available THEN Ethercat
    ELSE OkValue(U32(At(i, 3), At(i, 4), At(i, 5), At(i, 6)))

\* velocity.to_le_bytes() of a u32
u32_to_le_bytes(velocity) ==
    [k \in 1 .. 4 |-> (velocity \div (256 ^ (k - 1))) % 256]

\* servo.rs:529-546
set_profile_velocity(o, velocity, byte) ==
    IF ~Available THEN [ok |-> FALSE, out |-> o]
    ELSE [ok |-> TRUE,
          out |-> [k \in 1 .. Len(o) |->
                    IF k - 1 >= byte /\ k - 1 < byte + 4
                    THEN u32_to_le_bytes(velocity)[k - byte]
                    ELSE o[k]]]

\* Bit indices (u8) and the fields the bit operations are tried on.
Bits == {1, 8, 15, 255}

Fields == {PDO_ControlStatusWord, PDO_ProfileVelocity}

ImageTargets == {-2, 258, -2147483647}

Velocities == {0, 16909060}

\* Images before the calls: all bits clear, all bits set.
ImageOutputs == {Zeros(OutLen), [k \in 1 .. OutLen |-> 255]}

ImageInputs == {Zeros(InLen), [k \in 1 .. InLen |-> 255 - k]}

\* An accessor call o that leaves the output image o2 and returns r.
ImageCall(o, o2, r) ==
    /\ pc = "idle"
    /\ calls < MaxImageCalls
    /\ calls' = calls + 1
    /\ op' = o
    /\ out' = o2
    /\ result' = r
    /\ prev' = [name |-> op.name, result |-> result, okAll |-> okAll,
                call |-> op]
    /\ UNCHANGED <<id, inp, pc, timeout, live, sim, cycles, n1, n2, frSet,
                   sawOE, okAll, mis0, sawMode, ctl, bus, cw0, sentC4>>

ImageSetBit ==
    \E bit \in Bits, byte \in Fields :
        ImageCall([name |-> "set_bit", bit |-> bit, byte |-> byte],
                  set_bit(out, bit, byte), Value(set_bit_value(out, bit, byte)))

ImageUnsetBit ==
    \E bit \in Bits, byte \in Fields :
        ImageCall([name |-> "unset_bit", bit |-> bit, byte |-> byte],
                  unset_bit(out, bit, byte),
                  Value(unset_bit_value(out, bit, byte)))

ImageGetBit ==
    \E bit \in Bits, byte \in Fields :
        ImageCall([name |-> "get_bit", bit |-> bit, byte |-> byte],
                  out, Value(get_bit(inp, bit, byte)))

ImageGet16 ==
    ImageCall([name |-> "get_16", byte |-> PDO_ControlStatusWord],
              out, get_16(inp, PDO_ControlStatusWord))

ImageGetPosition == ImageCall([name |-> "get_position"], out, get_position(inp))

ImageSetPosition ==
    \E target \in ImageTargets :
        LET w == set_position(out, target, PDO_Position)
        IN  ImageCall([name |-> "set_position", target |-> target],
                      w.out, IF w.ok THEN Ok ELSE Ethercat)

ImageSetProfileVelocity ==
    \E velocity \in Velocities :
        LET w == set_profile_velocity(out, velocity, PDO_ProfileVelocity)
        IN  ImageCall([name |-> "set_profile_velocity", velocity |-> velocity],
                      w.out, IF w.ok THEN Ok ELSE Ethercat)

\* Controller::cycle between two accessor calls: the drive's new input image
ImageCycle ==
    /\ pc = "idle"
    /\ calls < MaxImageCalls
    /\ calls' = calls + 1
    /\ op' = [name |-> "cycle"]
    /\ inp' \in ImageInputs
    /\ result' = Unit
    /\ prev' = [name |-> op.name, result |-> result, okAll |-> okAll,
                call |-> op]
    /\ UNCHANGED <<id, out, pc, timeout, live, sim, cycles, n1, n2, frSet,
                   sawOE, okAll, mis0, sawMode, ctl, bus, cw0, sentC4>>

InitImage ==
    /\ id \in DeviceIds
    /\ out \in ImageOutputs
    /\ inp \in ImageInputs
    /\ pc = "idle"
    /\ op = NoCall
    /\ timeout = 0
    /\ result = NoResult
    /\ live = Available
    /\ sim = Free
    /\ ctl = Operational
    /\ InitHistory

NextImage ==
    \/ ImageSetBit
    \/ ImageUnsetBit
    \/ ImageGetBit
    \/ ImageGet16
    \/ ImageGetPosition
    \/ ImageSetPosition
    \/ ImageSetProfileVelocity
    \/ ImageCycle

SpecImage == InitImage /\ [][NextImage]_vars

----------------------------------------------------------------------------
(* What the accessor reads and writes.                                     *)

\* The byte that bit b of the field at offset k lies in, in an image of n bytes.
Addr(k, b, n) == (k + b \div 8) % n

\* An accessor call is made in this step.
ImageCalling(names) == calls' = calls + 1 /\ op'.name \in names

\* get_bit(b, f) is called right after set_bit(b, f) or unset_bit(b, f),
\* b in [0,16).
GetAfterSet ==
    /\ op.name \in {"set_bit", "unset_bit"}
    /\ ImageCalling({"get_bit"})
    /\ op'.bit = op.bit /\ op'.byte = op.byte
    /\ op.bit < 16

\* C14, as claimed: set_bit(b,f) followed at once by get_bit(b,f) returns
\* true, and unset_bit(b,f) followed by get_bit(b,f) returns false.
C14_Original ==
    [][GetAfterSet => result' = Value(op.name = "set_bit")]_vars

\* C14, amended: get_bit(b,f) right after set_bit(b,f) or unset_bit(b,f)
\* returns bit b of field f of the input image, whatever was set; what
\* set_bit has set and unset_bit has cleared is that bit of the output image.
C14_SetThenGetReadsInput ==
    [][GetAfterSet =>
        /\ result' = Value(/\ Available
                           /\ BitOf(At(inp, Addr(op.byte, op.bit, InLen)),
                                    op.bit % 8))
        /\ Available =>
              (BitOf(At(out, Addr(op.byte, op.bit, OutLen)), op.bit % 8)
                <=> op.name = "set_bit")]_vars

\* get_bit answering false right after set_bit has set the same bit.
C14_Witness ==
    /\ op.name = "get_bit" /\ prev.name = "set_bit"
    /\ prev.call.bit = op.bit /\ prev.call.byte = op.byte /\ op.bit < 16
    /\ Available
    /\ result = Value(FALSE)
    /\ BitOf(At(out, Addr(op.byte, op.bit, OutLen)), op.bit % 8)

\* C15: set_bit and unset_bit touch exactly bit (b mod 8) of output byte
\* (k + b div 8) mod output_length, and get_bit reads bit (b mod 8) of input
\* byte (k + b div 8) mod input_length: the address wraps around the image.
C15_BitAddressing ==
    [][Available =>
        /\ ImageCalling({"set_bit", "unset_bit"}) =>
              LET t == Addr(op'.byte, op'.bit, OutLen)
              IN  /\ \A j \in 0 .. OutLen - 1 :
                        j # t => At(out', j) = At(out, j)
                  /\ \A c \in 0 .. 7 :
                        BitOf(At(out', t), c) =
                            IF c = op'.bit % 8 THEN op'.name = "set_bit"
                            ELSE BitOf(At(out, t), c)
                  /\ inp' = inp
        /\ ImageCalling({"get_bit"}) =>
              /\ result' = Value(BitOf(At(inp, Addr(op'.byte, op'.bit, InLen)),
                                       op'.bit % 8))
              /\ out' = out
              /\ inp' = inp]_vars

\* set_bit(255, field 7) on a zeroed image: byte 7 + 31 wraps to byte 14.
C15_Witness ==
    /\ Available /\ calls = 1
    /\ op = [name |-> "set_bit", bit |-> 255, byte |-> PDO_ProfileVelocity]
    /\ out = Put(Zeros(OutLen), 14, 128)

\* T as an unsigned 32-bit pattern, in two 16-bit halves.
AsU32(T) ==
    IF T >= 0 THEN [lo |-> T % 65536, hi |-> T \div 65536]
    ELSE [lo |-> 65535 - ((-T - 1) % 65536), hi |-> 65535 - ((-T - 1) \div 65536)]

\* get_position is called right after a position write that succeeded.
GetAfterWrite ==
    op.name = "set_position" /\ result = Ok /\ ImageCalling({"get_position"})

\* C16, as claimed: writing T through the position write and then calling
\* get_position returns T as an unsigned 32-bit pattern.
C16_Original ==
    [][GetAfterWrite => result' = OkValue(AsU32(op.target))]_vars

\* C16, amended: after the position write of T, output bytes 3..6 hold T
\* as an unsigned 32-bit pattern, low byte first; get_position returns input
\* bytes 3..6 read the same way, which the write does not touch.
C16_WriteThenReadsInput ==
    [][GetAfterWrite =>
        /\ [lo |-> At(out, 3) + 256 * At(out, 4),
            hi |-> At(out, 5) + 256 * At(out, 6)] = AsU32(op.target)
        /\ result' = OkValue([lo |-> At(inp, 3) + 256 * At(inp, 4),
                              hi |-> At(inp, 5) + 256 * At(inp, 6)])]_vars

\* get_position answering something else than the target just written.
C16_Witness ==
    /\ op.name = "get_position" /\ prev.name = "set_position"
    /\ prev.result = Ok /\ prev.call.target = -2
    /\ result.tag = "Ok" /\ result.value # AsU32(-2)
    /\ At(out, 3) = 254 /\ At(out, 6) = 255

\* i32::from_le_bytes
from_le_i32(b0, b1, b2, b3) ==
    b0 + 256 * b1 + 65536 * b2
       + 16777216 * (IF b3 >= 128 THEN b3 - 256 ELSE b3)

\* C17: the position write changes exactly output bytes 3..6 and the
\* profile-velocity write exactly output bytes 7..10, each to the
\* little-endian encoding of the value; every other output byte and the
\* whole input image are unchanged.
C17_FieldWrites ==
    [][Available =>
        /\ ImageCalling({"set_position"}) =>
              /\ result' = Ok
              /\ \A j \in (0 .. OutLen - 1) \ (3 .. 6) : At(out', j) = At(out, j)
              /\ from_le_i32(At(out', 3), At(out', 4), At(out', 5), At(out', 6))
                    = op'.target
              /\ inp' = inp
        /\ ImageCalling({"set_profile_velocity"}) =>
              /\ result' = Ok
              /\ \A j \in (0 .. OutLen - 1) \ (7 .. 10) : At(out', j) = At(out, j)
              /\ At(out', 7) + 256 * At(out', 8) + 65536 * At(out', 9)
                    + 16777216 * At(out', 10) = op'.velocity
              /\ inp' = inp]_vars

\* Target 258 written between a mode byte and a velocity field of 255s.
C17_Witness ==
    /\ Available /\ calls = 1
    /\ op = [name |-> "set_position", target |-> 258]
    /\ At(out, 2) = 255 /\ At(out, 7) = 255
    /\ <<At(out, 3), At(out, 4), At(out, 5), At(out, 6)>> = <<2, 1, 0, 0>>

\* C20: when the device's image cannot be located, set_bit and unset_bit
\* return 0 and get_bit returns false, get_16, get_position and the two
\* writes return an error, and no image is changed; the position write of
\* move_position then returns that error without raising Control4.
C20_UnavailableIsSoftOrError ==
    [][(~Available /\ calls' = calls + 1 /\ op'.name # "cycle") =>
        /\ out' = out
        /\ inp' = inp
        /\ op'.name \in {"set_bit", "unset_bit"} => result' = Value(0)
        /\ op'.name = "get_bit" => result' = Value(FALSE)
        /\ op'.name \in {"get_16", "get_position", "set_position",
                          "set_profile_velocity"} =>
              result'.tag = "Ethercat"
        /\ \A t \in ImageTargets, m \in Movements :
              LET f == move_after_mode(out, inp, 0, t, m)
              IN  f.pc = "idle" /\ f.result.tag = "Ethercat" /\ f.out = out]_vars

\* A position write that failed, after a set_bit that did nothing.
C20_Witness ==
    /\ ~Available /\ calls = 2
    /\ op.name = "set_position" /\ result.tag = "Ethercat"
    /\ prev.name = "set_bit"
    /\ out \in ImageOutputs

----------------------------------------------------------------------------
(* Controller::new called again and again, on either storage.              *)

\* A drive and a device that is none, for the groups of several devices.
Drive == [name |-> "CMMT-AS", product_id |-> OtherProductId]

Coupler == [name |-> OtherName, product_id |-> OtherProductId]

\* The groups init_single_group can find: no device, any one device, or
\* several devices each of which is the drive or the coupler.
Groups ==
    {<<>>} \cup {<<d>> : d \in SubDevices}
    \cup UNION {[1 .. n -> {Drive, Coupler}] : n \in 2 .. MaxDevices}

\* The SDO writes that fail: none, one of them, or all of them.
SdoObjects == {CycleTimeIndex, PDO_OUTPUT_INDEX, PDO_INPUT_INDEX}

AllWrites == {[dev |-> k, index |-> x] : k \in 1 .. MaxDevices, x \in SdoObjects}

Bads == {{}} \cup {{w} : w \in AllWrites} \cup {AllWrites}

CycleTimes == {1, 3}

\* The environments of a Controller::new: the update task cannot be spawned,
\* or the group cannot be initialised, or a group is found, some writes
\* fail and the group can or cannot be made operational.
Environments ==
    {[Benign EXCEPT !.spawn = FALSE], [Benign EXCEPT !.init = FALSE]}
    \cup [spawn : {TRUE}, init : {TRUE}, into_op : BOOLEAN, bad : Bads,
          group : Groups]

\* Controller::new(interface_name, cycle_time, pdu_storage, verbose)
CallControllerNew ==
    \E s \in Storages, cycle_time \in CycleTimes :
        \E env \in IF ctl[s].is_split THEN {Benign} ELSE Environments :
            LET r == controller_new(ctl[s], cycle_time, env)
            IN  /\ calls < MaxControllerCalls
                /\ calls' = calls + 1
                /\ op' = [name |-> "Controller::new", storage |-> s,
                          cycle_time |-> cycle_time]
                /\ ctl' = [ctl EXCEPT ![s] = r.storage]
                /\ bus' = r.bus
                /\ result' = r.result
                /\ UNCHANGED <<id, out, inp, pc, timeout, live, sim, cycles,
                               n1, n2, frSet, sawOE, okAll, prev, mis0,
                               sawMode, cw0, sentC4>>

\* Controller::cycle on a Controller that exists, the exchange taking delta
\* and succeeding or failing
CallControllerCycle ==
    \E s \in Storages, delta \in 0 .. MaxElapsed, ok \in BOOLEAN :
        /\ ctl[s].controllers = 1
        /\ cycles < MaxControllerCycles
        /\ cycles' = cycles + 1
        /\ op' = [name |-> "Controller::cycle", storage |-> s,
                  delta |-> delta, ok |-> ok]
        /\ bus' = controller_cycle(ctl[s].cycle_time, delta, ok)
        /\ result' = Unit
        /\ UNCHANGED <<id, out, inp, pc, timeout, live, sim, calls, n1, n2,
                       frSet, sawOE, okAll, prev, mis0, sawMode, ctl, cw0,
                       sentC4>>

\* No Controller::new has been called yet.
InitController ==
    /\ id = GroupLen - 1
    /\ out = Zeros(OutLen)
    /\ inp = Zeros(InLen)
    /\ pc = "idle"
    /\ op = NoCall
    /\ timeout = 0
    /\ result = NoResult
    /\ live = FALSE
    /\ sim = Free
    /\ ctl = [s \in Storages |-> Untouched]
    /\ InitHistory

NextController ==
    \/ CallControllerNew
    \/ CallControllerCycle

SpecController == InitController /\ [][NextController]_vars

\* C18: at most one Controller exists per PduStorage: once Controller::new
\* has claimed a storage, every further Controller::new on it fails with
\* AnotherControllerExists before any task is spawned, any group is
\* initialised and any device is configured.
C18_OneControllerPerStorage ==
    /\ [](\A s \in Storages : ctl[s].controllers <= 1)
    /\ [][(calls' = calls + 1 /\ ctl[op'.storage].is_split) =>
            /\ result' = ControllerError("AnotherControllerExists")
            /\ ctl' = ctl]_vars

\* A second Controller::new on the storage of a Controller that exists.
C18_Witness ==
    /\ calls >= 2
    /\ result = ControllerError("AnotherControllerExists")
    /\ ctl[op.storage].controllers = 1
    /\ ctl[op.storage].spawned = 1

----------------------------------------------------------------------------
(* Device::disable: what it returns and what the drive gets to see.        *)

\* C21: disable returns Timeout only if OperationEnabled still reads true
\* when the poll budget is used up; whenever the last poll reads
\* OperationEnabled false, disable returns Ok.
C21_TimeoutOnlyIfStillEnabled ==
    Done("disable") =>
        /\ result = Timeout => Status(inp, SW_OperationEnabled)
        /\ ~Status(inp, SW_OperationEnabled) => result = Ok

\* C28: the first exchange of disable carries EnableOperation = 0 and
\* SwitchOn = 0 with QuickStop and EnableVoltage as before the call; they
\* are cleared only after it, and an exchange carries them cleared to the
\* drive before disable returns.
C28_DisableSequence ==
    op.name = "disable" =>
        /\ pc = "disable_first" =>
              /\ ~Control(out, CB_EnableOperation)
              /\ ~Control(out, CB_SwitchOn)
              /\ Control(out, CB_QuickStop) = BitOf(cw0, CB_QuickStop)
              /\ Control(out, CB_EnableVoltage) = BitOf(cw0, CB_EnableVoltage)
        /\ pc \in {"disable_poll", "idle"} =>
              /\ ~Control(out, CB_QuickStop)
              /\ ~Control(out, CB_EnableVoltage)
        /\ (pc = "idle"
               /\ (BitOf(cw0, CB_QuickStop) \/ BitOf(cw0, CB_EnableVoltage))) =>
              cycles >= 2

----------------------------------------------------------------------------
(* Device::new: the order of the two enable loops.                         *)

\* EnableOperation or SwitchOn is set in the controlword of image o.
Switching(o) == Control(o, CB_EnableOperation) \/ Control(o, CB_SwitchOn)

\* C27: during Device::new, EnableOperation and SwitchOn are not set in the
\* output image before VoltageEnabled and QuickStop have both been read
\* true; while they have not, every exchange carries QuickStop and
\* EnableVoltage set and nothing else.
C27_VoltageBeforeOperation ==
    [][op'.name = "new" =>
        /\ (Switching(out') /\ ~Switching(out)) =>
              (Status(inp', SW_VoltageEnabled) /\ Status(inp', SW_QuickStop))
        /\ pc' \in {"reset_first", "reset_retry"} => ~Switching(out')
        /\ pc' = "enable_voltage" =>
              /\ Controlword(out') = 2 ^ CB_QuickStop + 2 ^ CB_EnableVoltage
              /\ ~(Status(inp', SW_VoltageEnabled)
                     /\ Status(inp', SW_QuickStop))]_vars

\* The second loop entered after the first loop has run: both bits read
\* true, EnableOperation and SwitchOn now set.
C27_Witness ==
    /\ op.name = "new" /\ pc = "enable_operation" /\ n1 >= 1 /\ n2 = 0
    /\ Switching(out)
    /\ Status(inp, SW_VoltageEnabled) /\ Status(inp, SW_QuickStop)

----------------------------------------------------------------------------
(* home, jog, jog_stop and move_position: the start bits and the waits.    *)

\* The three operation-specific control bits of image o are clear.
ControlClear(o) ==
    /\ ~Control(o, CB_Control4)
    /\ ~Control(o, CB_Control5)
    /\ ~Control(o, CB_Control6)

\* The step in which the mode switch of a call of the given name returns Ok:
\* the call step itself or an exchange of the mode switch.
ModeSwitched(name) ==
    /\ op'.name = name
    /\ pc = "set_mode" \/ (pc = "idle" /\ calls' = calls + 1)
    /\ pc' # "set_mode"
    /\ result'.tag \notin {"SetMode", "DeviceDisabled", "DriveDisabled"}

\* C22: home(always = false), when DriveHomed reads true after the mode
\* switch, returns Ok in the step that ends the mode switch, with no further
\* cycle() and Control4 never raised; home(always = true) with DriveHomed set
\* runs the start sequence: it waits for the acknowledge with Control4
\* raised, unless the acknowledge bit already reads true.
C22_HomeSkipsWhenHomed ==
    [][(ModeSwitched("home") /\ Status(inp', SW_DriveHomed)) =>
        /\ ~op'.always =>
              /\ pc' = "idle" /\ result' = Ok
              /\ ControlClear(out')
              /\ ~sentC4'
        /\ op'.always =>
              IF Status(inp', SW_AckStartRefReached)
              THEN pc' = "idle" /\ result' = Ok
              ELSE pc' = "home_ack" /\ Control(out', CB_Control4)]_vars

\* home(always = false) returned Ok on a homed drive whose acknowledge bit
\* reads false: nothing but the skip lets it return.
C22_Witness ==
    /\ Done("home") /\ ~op.always /\ result = Ok
    /\ Status(inp, SW_DriveHomed)
    /\ ~Status(inp, SW_AckStartRefReached)
    /\ ~sentC4

\* C23: in the start sequence of home, every exchange of the acknowledge
\* wait carries Control4 set and Control5 and Control6 clear; the wait ends
\* only on AckStartRefReached read true; home returns Ok only with Control4
\* clear, and, unless it skipped the sequence, only with AckStartRefReached
\* read true.
C23_HomeStartSequence ==
    [][op'.name = "home" =>
        /\ pc' = "home_ack" =>
              /\ Control(out', CB_Control4)
              /\ ~Control(out', CB_Control5)
              /\ ~Control(out', CB_Control6)
              /\ ~Status(inp', SW_AckStartRefReached)
        /\ pc = "home_ack" =>
              /\ cycles' = cycles + 1
              /\ pc' = "idle" =>
                    (result' = Ok /\ Status(inp', SW_AckStartRefReached))
        /\ (pc' = "idle" /\ result' = Ok) =>
              /\ ~Control(out', CB_Control4)
              /\ \/ Status(inp', SW_AckStartRefReached)
                 \/ (Status(inp', SW_DriveHomed) /\ ~op'.always)]_vars

\* home(always = true) returned Ok after an acknowledge wait that sent
\* Control4 to the drive.
C23_Witness ==
    /\ Done("home") /\ op.always /\ result = Ok
    /\ sentC4
    /\ Status(inp, SW_AckStartRefReached)
    /\ ~Control(out, CB_Control4)

Jogs == {"jog_positive", "jog_negative"}

\* C24: jog_positive returns Ok with Control4 set and Control5 clear,
\* jog_negative with Control5 set and Control4 clear; no jog call returns
\* with both set; the direction bit is raised in the step that reads
\* MotionComplete true, after an exchange that carried both bits clear.
C24_JogDirectionBits ==
    [][op'.name \in Jogs =>
        /\ pc' = "jog_complete" =>
              (ControlClear(out') /\ ~Status(inp', SW_MotionComplete))
        /\ pc' = "idle" =>
              ~(Control(out', CB_Control4) /\ Control(out', CB_Control5))
        /\ (pc' = "idle" /\ result' = Ok) =>
              /\ Control(out', CB_Control4) <=> op'.name = "jog_positive"
              /\ Control(out', CB_Control5) <=> op'.name = "jog_negative"
              /\ Status(inp', SW_MotionComplete)
              /\ pc \in {"set_mode", "jog_complete"}
              /\ ControlClear(out)]_vars

\* jog_negative returned Ok right after a jog_positive that left Control4
\* set.
C24_Witness ==
    /\ Done("jog_negative") /\ result = Ok
    /\ prev.name = "jog_positive" /\ prev.result = Ok
    /\ BitOf(cw0, CB_Control4)
    /\ Control(out, CB_Control5) /\ ~Control(out, CB_Control4)

\* C25: jog_stop on an enabled device sends Control4, Control5 and Control6
\* clear in every exchange of its wait, waits while MotionComplete reads
\* false, and returns only on MotionComplete read true, the three bits clear.
C25_JogStopWaits ==
    op.name = "jog_stop" =>
        /\ pc = "jog_stop_complete" =>
              (ControlClear(out) /\ ~Status(inp, SW_MotionComplete))
        /\ (pc = "idle" /\ (cycles > 0 \/ Status(inp, SW_OperationEnabled))) =>
              /\ result = Unit
              /\ Status(inp, SW_MotionComplete)
              /\ ControlClear(out)

\* jog_stop returned after a wait of two exchanges or more, the first of
\* them answered with MotionComplete false.
C25_Witness ==
    /\ Done("jog_stop") /\ result = Unit /\ cycles >= 2
    /\ Status(inp, SW_MotionComplete)
    /\ ControlClear(out)

MoveWaits == {"move_latch", "move_ack", "move_complete"}

\* C26: move_position, once Control4 is raised, waits for AckStartRefReached
\* with Control4 set and only then for MotionComplete, one cycle() per
\* iteration, the three control bits cleared before each cycle() of the
\* MotionComplete wait; it returns Ok only on MotionComplete read true and
\* only once AckStartRefReached has been read true after the raise.
C26_MoveWaits ==
    [][op'.name = "move_position" =>
        /\ pc' = "move_ack" =>
              /\ pc \in {"move_latch", "move_ack"}
              /\ Control(out', CB_Control4)
              /\ ~Status(inp', SW_AckStartRefReached)
        /\ pc' = "move_complete" =>
              /\ pc \in MoveWaits
              /\ pc # "move_complete" => Status(inp', SW_AckStartRefReached)
              /\ ~Status(inp', SW_MotionComplete)
              /\ ControlClear(out')
        /\ (pc' = "idle" /\ result' = Ok) =>
              /\ pc \in MoveWaits
              /\ pc # "move_complete" => Status(inp', SW_AckStartRefReached)
              /\ Status(inp', SW_MotionComplete)
        /\ pc \in MoveWaits => cycles' = cycles + 1]_vars

\* move_position returned Ok after both waits: Control4 went to the drive
\* in the acknowledge wait and was cleared in the MotionComplete wait.
C26_Witness ==
    /\ Done("move_position") /\ result = Ok
    /\ sentC4
    /\ cycles = MaxCycles
    /\ Status(inp, SW_MotionComplete)
    /\ ControlClear(out)

----------------------------------------------------------------------------
(* Controller::new: the configuration of the devices.  Controller::cycle.  *)

\* A CMMT drive, by its name or by its product id.
IsCmmt(d) ==
    \/ d.name = "CMMT-AS"
    \/ d.name = "CMMT-ST"
    \/ d.product_id = 8084005
    \/ d.product_id = 8067733

\* The three writes device k is owed: the cycle time to 0x212E:2, the output
\* mapping to 0x1600, the input mapping to 0x1A00.
OwedTo(k, cycle_time) ==
    <<[dev |-> k, index |-> 8494, sub |-> 2, value |-> <<cycle_time>>],
      [dev |-> k, index |-> 5632, sub |-> 0, value |-> PDO_OUTPUT],
      [dev |-> k, index |-> 6656, sub |-> 0, value |-> PDO_INPUT]>>

\* The writes the first k devices of a group are owed, in order.
RECURSIVE Owed(_, _, _)
Owed(group, cycle_time, k) ==
    IF k = 0 THEN <<>>
    ELSE Owed(group, cycle_time, k - 1)
         \o (IF IsCmmt(group[k]) THEN OwedTo(k, cycle_time) ELSE <<>>)

\* The SDO writes of a trace, and a write without its outcome.
Writes(t) == SelectSeq(t, LAMBDA e : e.kind = "sdo_write")

Written(e) ==
    [dev |-> e.dev, index |-> e.index, sub |-> e.sub, value |-> e.value]

\* The error Controller::new maps a failed write to object `index` to.
WriteError(index) ==
    ControllerError(IF index = 8494 THEN "CycleTime"
                    ELSE IF index = 5632 THEN "OutputPdo"
                    ELSE "InputPdo")

\* C29: a Controller::new that has initialised its group writes, to each
\* CMMT drive of the group in turn and to no other device, the cycle time to
\* 0x212E:2, then the output mapping to 0x1600, then the input mapping to
\* 0x1A00; the first write that fails is the last thing it does on the bus,
\* it returns the error of that write and no Controller; the group is moved
\* to operational only after every owed write has succeeded.
C29_ConfigureBeforeOperational ==
    [][(op'.name = "Controller::new" /\ calls' = calls + 1 /\ bus' # <<>>) =>
        LET s == op'.storage
            w == Writes(bus')
            n == Len(w)
            owed == Owed(bus'[1].value, op'.cycle_time, Len(bus'[1].value))
        IN  /\ bus'[1].kind = "init_single_group"
            /\ n <= Len(owed)
            /\ \A k \in 1 .. n : Written(w[k]) = owed[k]
            /\ \A k \in 1 .. n : bus'[k + 1] = w[k]
            /\ \A k \in 1 .. n - 1 : w[k].ok
            /\ IF n > 0 /\ ~w[n].ok
               THEN /\ Len(bus') = n + 1
                    /\ result' = WriteError(w[n].index)
                    /\ ctl'[s].configured = ctl[s].configured
                    /\ ctl'[s].controllers = ctl[s].controllers
               ELSE /\ n = Len(owed)
                    /\ Len(bus') = n + 2
                    /\ bus'[n + 2].kind = "into_op"
                    /\ result' = IF bus'[n + 2].ok THEN Ok
                                  ELSE ControllerError(
                                           "FailedToMakeGroupOperational")
                    /\ ctl'[s].controllers =
                          ctl[s].controllers + (IF bus'[n + 2].ok THEN 1 ELSE 0)]_vars

\* A group of two devices, the first of them no drive: the cycle time is
\* written to the second, the write of its output mapping fails, and
\* Controller::new returns OutputPdo.
C29_Witness ==
    /\ op.name = "Controller::new"
    /\ result = ControllerError("OutputPdo")
    /\ Len(bus) = 3
    /\ Len(bus[1].value) = 2
    /\ bus[2].dev = 2 /\ bus[2].ok
    /\ bus[3].dev = 2 /\ ~bus[3].ok
    /\ ctl[op.storage].controllers = 0

\* C30: every Controller::cycle makes exactly one exchange, then sleeps for
\* the cycle time less the time the exchange took when that time does not
\* exceed the cycle time, and does not sleep when it does; it returns
\* nothing, whether the exchange failed or not.
C30_CycleExchangesOnceThenSleeps ==
    [][(op'.name = "Controller::cycle" /\ cycles' = cycles + 1) =>
        LET cycle_time == ctl[op'.storage].cycle_time
        IN  /\ result' = Unit
            /\ ctl' = ctl
            /\ Len(SelectSeq(bus', LAMBDA e : e.kind = "tx_rx")) = 1
            /\ bus'[1] = TxRx(op'.ok)
            /\ IF op'.delta <= cycle_time
               THEN bus' = <<TxRx(op'.ok), Sleep(cycle_time - op'.delta)>>
               ELSE bus' = <<TxRx(op'.ok)>>]_vars

\* A cycle whose exchange failed and took less than the cycle time.
C30_Witness ==
    /\ op.name = "Controller::cycle"
    /\ ~op.ok
    /\ op.delta > 0
    /\ op.delta < ctl[op.storage].cycle_time
    /\ bus = <<TxRx(FALSE), Sleep(ctl[op.storage].cycle_time - op.delta)>>
    /\ result = Unit

----------------------------------------------------------------------------
(* Device::new and Reset: the shared budget, the FaultReset bit.           *)

\* C34: the two enable loops of Device::new count one budget down: the
\* cycle() calls of the first loop and of the second together never exceed
\* it, and when the first loop has used all of it the second loop makes no
\* cycle() and sets neither EnableOperation nor SwitchOn.
C34_SharedEnableBudget ==
    op.name = "new" =>
        /\ n1 + n2 <= EnableTimeout
        /\ pc = "enable_voltage" => timeout = EnableTimeout - n1
        /\ pc = "enable_operation" => timeout = EnableTimeout - n1 - n2 - 1
        /\ n1 = EnableTimeout => (n2 = 0 /\ ~Switching(out))

\* Device::new has returned after a first loop that used the whole budget.
C34_Witness ==
    /\ Done("new") /\ n1 = EnableTimeout /\ n2 = 0
    /\ result = EnableError("Timeout")
    /\ ~Switching(out)

\* C36: in Reset the first exchange carries an all-zero output image, every
\* exchange of the retry loop carries FaultReset set, and FaultReset is clear
\* in the output image whenever Reset has returned, to its caller or into
\* Device::new.
C36_FaultResetInReset ==
    /\ pc = "reset_first" => out = Zeros(OutLen)
    /\ pc = "reset_retry" => Control(out, CB_FaultReset)
    /\ pc \notin {"reset_first", "reset_retry"} => ~Control(out, CB_FaultReset)

\* Reset has returned after two retries or more.
C36_Witness ==
    /\ Done("reset") /\ frSet /\ cycles >= 3
    /\ ~Control(out, CB_FaultReset)

----------------------------------------------------------------------------
(* The motion calls and the controlword: what they leave alone, and what   *)
(* the mode switch leaves behind.                                          *)

\* The bits that enable the drive, and FaultReset.
EnableCommandBits ==
    {CB_SwitchOn, CB_EnableVoltage, CB_QuickStop, CB_EnableOperation,
     CB_FaultReset}

\* C35: no step of home, jog_positive, jog_negative, jog_stop, move_position
\* or of the mode switch changes SwitchOn, EnableVoltage, QuickStop,
\* EnableOperation or FaultReset in the output image.
C35_EnableBitsKept ==
    [][\A b \in EnableCommandBits : Control(out', b) <=> Control(out, b)]_vars

\* Two motion calls went by on a fully enabled device, the second a jog
\* that set its direction bit after an earlier call had set Control4.
C35_Witness ==
    /\ calls = 2 /\ pc = "idle" /\ result = Ok
    /\ op.name = "jog_negative"
    /\ BitOf(cw0, CB_Control4)
    /\ Control(out, CB_Control5)
    /\ \A b \in EnableCommandBits \ {CB_FaultReset} : Control(out, b)

\* The operation-specific bits the caller sets between the return of the
\* mode switch and its first cycle() or its return.
SetAfterSwitch ==
    IF op'.name = "home"
    THEN (IF pc' = "home_ack" THEN {CB_Control4} ELSE {})
    ELSE IF op'.name = "move_position"
    THEN (IF op'.movement = "Relative" THEN {CB_Control6} ELSE {})
    ELSE IF pc' = "jog_complete" THEN {}
    ELSE IF op'.name = "jog_positive" THEN {CB_Control4}
    ELSE {CB_Control5}

\* C37: in the step in which the mode switch returns Ok the mode echo of the
\* input image is the mode asked, and Control4, Control5, Control6 and bit 9
\* are clear in the output image but for what the caller sets right after.
C37_ModeSwitchOk ==
    [][\A name \in ModeCalls :
        ModeSwitched(name) =>
            /\ At(inp', PDO_OperationMode) = ModeOf(op')
            /\ \A b \in {CB_Control4, CB_Control5, CB_Control6, CB_Control9} :
                    Control(out', b) <=> b \in SetAfterSwitch]_vars

\* A jog whose mode switch has just returned, called with Control4 set.
C37_Witness ==
    /\ op.name \in Jogs /\ pc = "jog_complete"
    /\ cycles = ModeTimeout
    /\ BitOf(cw0, CB_Control4)
    /\ At(inp, PDO_OperationMode) = Jog
    /\ ControlClear(out) /\ ~Control(out, CB_Control9)

----------------------------------------------------------------------------
(* A device, before Device::new or enabled by it: the calls of SpecEnable  *)
(* and, for the mode switch, the jog calls (set_mode is the same code for  *)
(* each of its callers).  Every cycle() returns, so an exchange a bounded  *)
(* loop waits in does take place.                                          *)

\* The enabled device starts from one image of each kind: both enable loops
\* have run, no status bit beyond those of the enabled state is set, and the
\* jog mode is echoed; every exchange that follows answers anything.
InitDevice ==
    \/ InitEnable
    \/ /\ InitMotion
       /\ Controlword(out) = BitsValue({CB_QuickStop, CB_EnableVoltage,
                                        CB_EnableOperation, CB_SwitchOn})
       /\ inp = Input(BitsValue({SW_VoltageEnabled, SW_QuickStop,
                                 SW_OperationEnabled}), Jog)

NextDevice ==
    \/ NextEnable
    \/ CallJog
    \/ SetModeCycle
    \/ JogCompleteCycle

SpecDevice == InitDevice /\ [][NextDevice]_vars

\* The exchange a budgeted loop waits for; pc enables at most one of them.
BudgetCycle ==
    \/ ResetFirstCycle
    \/ ResetRetryCycle
    \/ EnableVoltageCycle
    \/ EnableOperationCycle
    \/ DisableFirstCycle
    \/ DisablePollCycle
    \/ SetModeCycle

FairDevice == SpecDevice /\ WF_vars(BudgetCycle)

\* Where Reset, Device::new, disable and the mode switch wait in cycle(),
\* and the loops among them.
BudgetWaits ==
    {"reset_first", "reset_retry", "enable_voltage", "enable_operation",
     "disable_first", "disable_poll", "set_mode"}

BudgetLoops == BudgetWaits \ {"reset_first", "disable_first"}

\* C32: Reset, Device::new, disable and the mode switch return whatever
\* the device answers: every iteration of their loops counts a budget down,
\* Reset makes at most one cycle() more than its budget, as does disable,
\* the mode switch at most its budget, Device::new at most those of Reset
\* and of its two enable loops together.
C32_BudgetLoopsTerminate ==
    /\ [](/\ op.name = "reset" => cycles <= ResetRetries + 1
          /\ op.name = "disable" => cycles <= DisableTimeout + 1
          /\ op.name = "new" => cycles <= ResetRetries + 1 + EnableTimeout
          /\ pc = "set_mode" => cycles + 1 <= ModeTimeout
          /\ pc \in BudgetLoops => timeout >= 0)
    /\ [][(pc \in BudgetLoops /\ pc' = pc) => timeout' = timeout - 1]_vars
    /\ [](pc \in BudgetWaits => <>(pc \notin BudgetWaits))

\* disable has returned after as many cycle() calls as it can make.
C32_Witness ==
    /\ Done("disable") /\ cycles = DisableTimeout + 1
    /\ result = Timeout

----------------------------------------------------------------------------
(* The waits of the motion calls that have no budget.                      *)

AckWaits == {"home_ack", "move_ack"}

CompleteWaits == {"jog_complete", "jog_stop_complete", "move_complete"}

\* The status bit the wait at p polls.
Awaited(p) ==
    IF p \in AckWaits THEN SW_AckStartRefReached ELSE SW_MotionComplete

\* C33: the acknowledge and MotionComplete waits of home, jog, jog_stop and
\* move_position have one exit only: an exchange that reads the awaited bit
\* false leaves the call in the same wait, nothing counted down and no
\* result; an exchange that reads it true ends the wait, and the call
\* returns without an error or goes on to its next wait.
C33_WaitsHaveNoBudget ==
    [][(pc \in AckWaits \cup CompleteWaits) =>
        IF ~Status(inp', Awaited(pc))
        THEN /\ pc' = pc
             /\ timeout' = timeout
             /\ result' = NoResult
             /\ out' = IF pc = "move_complete" THEN unset_control(out) ELSE out
        ELSE /\ pc' # pc
             /\ pc' \in IF pc = "move_ack" THEN {"move_complete", "idle"}
                        ELSE {"idle"}
             /\ pc' = "idle" => (result' = Ok \/ result' = Unit)]_vars

\* home still waits for the acknowledge after as many exchanges as the
\* model lets a call make, the budget of the mode switch long used up.
C33_Witness ==
    /\ op.name = "home" /\ pc = "home_ack"
    /\ cycles = MaxCycles
    /\ timeout = 0
    /\ ~Status(inp, SW_AckStartRefReached)

\* ---------------------------------------------------------------------
\* Servo::move_position_velocity and
\* Servo::move_position_velocity_acceleration (servo.rs:435-499)

\* The objects the two SDO writes address (servo.rs:480, 488).
ProfileAcceleration == 24707

ProfileDeceleration == 24708

\* FullControlMovementError::WritingAccelerationFailed(self.0.id, error)
WritingAccelerationFailed ==
    [tag |-> "WritingAccelerationFailed", device |-> id]

\* FullControlMovementError::WritingDecelerationFailed(self.0.id, error)
WritingDecelerationFailed ==
    [tag |-> "WritingDecelerationFailed", device |-> id]

\* FullControlMovementError::DeviceInUse
DeviceInUse == [tag |-> "DeviceInUse"]

\* The enabled check first, the velocity written only if it passes.
move_position_velocity_check_first(o, i, c) ==
    LET w == set_profile_velocity(o, c.velocity, PDO_ProfileVelocity)
        f == motion_enter(o, i, c)
    IN  IF ~w.ok THEN Return(o, 0, Ethercat)
        ELSE IF f.pc = "idle" THEN f
        ELSE motion_enter(w.out, i, c)

\* servo.rs:435-447: the velocity goes into the image, then move_position
\* runs on that image.
move_position_velocity(o, i, c) ==
    LET w == set_profile_velocity(o, c.velocity, PDO_ProfileVelocity)
    IN  IF ~w.ok THEN Return(o, 0, Ethercat)
        ELSE motion_enter(w.out, i, c)

\* The velocity written into the image before the two SDO writes.
move_position_velocity_acceleration_velocity_first(o, i, c, bad) ==
    LET v  == set_profile_velocity(o, c.velocity, PDO_ProfileVelocity).out
        w1 == SdoWrite(id, ProfileAcceleration, 0, <<c.acceleration>>,
                       ProfileAcceleration \notin bad)
        w2 == SdoWrite(id, ProfileDeceleration, 0, <<c.deceleration>>,
                       ProfileDeceleration \notin bad)
    IN  IF ~Available
        THEN [frame |-> Return(o, 0, DeviceInUse), bus |-> <<>>]
        ELSE IF ~w1.ok
        THEN [frame |-> Return(v, 0, WritingAccelerationFailed),
              bus |-> <<w1>>]
        ELSE IF ~w2.ok
        THEN [frame |-> Return(v, 0, WritingDecelerationFailed),
              bus |-> <<w1, w2>>]
        ELSE [frame |-> map_err_MovementFailed(move_position_velocity(o, i, c)),
              bus |-> <<w1, w2>>]

\* servo.rs:461-499: the frame the call runs to and the SDO writes it made;
\* bad holds the objects whose write the drive refuses.
move_position_velocity_acceleration(o, i, c, bad) ==
    LET w1 == SdoWrite(id, ProfileAcceleration, 0, <<c.acceleration>>,
                       ProfileAcceleration \notin bad)
        w2 == SdoWrite(id, ProfileDeceleration, 0, <<c.deceleration>>,
                       ProfileDeceleration \notin bad)
    IN  IF ~Available
        THEN [frame |-> Return(o, 0, DeviceInUse), bus |-> <<>>]
        ELSE IF ~w1.ok
        THEN [frame |-> Return(o, 0, WritingAccelerationFailed),
              bus |-> <<w1>>]
        ELSE IF ~w2.ok
        THEN [frame |-> Return(o, 0, WritingDecelerationFailed),
              bus |-> <<w1, w2>>]
        ELSE [frame |-> map_err_MovementFailed(move_position_velocity(o, i, c)),
              bus |-> <<w1, w2>>]

\* The target of the calls that also set the velocity.
ProfileTargets == {258}

Accelerations == {1000}

Decelerations == {2000}

\* The sets of objects whose SDO write fails.
ProfileBads == SUBSET {ProfileAcceleration, ProfileDeceleration}

\* A call that ends in move_position: frame f, SDO log b.
ProfileCall(c, f, b) ==
    /\ live
    /\ BeginLogged(c, f, MaxMotionCalls, b)
    /\ mis0' = (At(inp, PDO_OperationMode) # ModeOf(c))
    /\ sawMode' = FALSE
    /\ UNCHANGED live

CallMovePositionVelocity ==
    \E target \in ProfileTargets, movement \in Movements,
       velocity \in Velocities :
        LET c == [name |-> "move_position_velocity", target |-> target,
                  movement |-> movement, velocity |-> velocity]
        IN  ProfileCall(c, move_position_velocity(out, inp, c), <<>>)

CallMovePositionVelocityAcceleration ==
    \E target \in ProfileTargets, movement \in Movements,
       velocity \in Velocities, acceleration \in Accelerations,
       deceleration \in Decelerations,
       bad \in ProfileBads :
        LET c == [name |-> "move_position_velocity_acceleration",
                  target |-> target, movement |-> movement,
                  velocity |-> velocity, acceleration |-> acceleration,
                  deceleration |-> deceleration]
            r == move_position_velocity_acceleration(out, inp, c, bad)
        IN  ProfileCall(c, r.frame, r.bus)

NextProfile ==
    \/ CallMovePositionVelocity
    \/ CallMovePositionVelocityAcceleration
    \/ SetModeCycle
    \/ MoveLatchCycle
    \/ MoveAckCycle
    \/ MoveCompleteCycle

SpecProfile == InitMotion /\ [][NextProfile]_vars

\* The image o with the profile velocity field holding velocity.
WithVelocity(o, velocity) ==
    [k \in 1 .. Len(o) |->
        IF k \in 8 .. 11 THEN u32_to_le_bytes(velocity)[k - 7] ELSE o[k]]

\* C38: move_position_velocity writes the 4-byte profile velocity into
\* output bytes 7..10 before the enabled check of move_position: when the
\* call returns DriveDisabled, bytes 7..10 of the output image hold the
\* little-endian velocity, every other output byte is as it was before the
\* call, and no cycle() was called.
C38_VelocityWrittenBeforeEnabledCheck ==
    [][(calls' # calls /\ op'.name = "move_position_velocity")
        => /\ \A k \in 1 .. 4 :
                out'[7 + k] = (op'.velocity \div (256 ^ (k - 1))) % 256
           /\ (result' = DriveDisabled
                => /\ pc' = "idle"
                   /\ ~Status(inp, SW_OperationEnabled)
                   /\ out' = WithVelocity(out, op'.velocity)
                   /\ cycles' = 0
                   /\ inp' = inp)]_vars

C38_Witness ==
    /\ op.name = "move_position_velocity"
    /\ pc = "idle"
    /\ result = DriveDisabled
    /\ cycles = 0
    /\ op.velocity = 16909060
    /\ <<out[8], out[9], out[10], out[11]>> = <<4, 3, 2, 1>>
    /\ prev.name = "move_position_velocity"
    /\ prev.result = Ok

SdoLogged(e, index, value) ==
    /\ e.kind = "sdo_write"
    /\ e.dev = id
    /\ e.index = index
    /\ e.sub = 0
    /\ e.value = <<value>>

\* C31: move_position_velocity_acceleration writes the acceleration to
\* object 0x6083 and then the deceleration to object 0x6084 before it
\* writes the profile velocity into the output image and before the
\* position move starts.  If the acceleration write fails the call returns
\* WritingAccelerationFailed with the device id and the deceleration is not
\* written; if the deceleration write fails it returns
\* WritingDecelerationFailed with the device id; in both cases the output
\* image is unchanged and no cycle() is called.  The velocity is in the
\* image only after both writes succeeded.
C31_AccelerationThenDeceleration ==
    [][(calls' # calls /\ op'.name = "move_position_velocity_acceleration")
        => /\ Len(bus') \in {1, 2}
           /\ SdoLogged(bus'[1], 24707, op'.acceleration)
           /\ (Len(bus') = 2 <=> bus'[1].ok)
           /\ (Len(bus') = 2
                => SdoLogged(bus'[2], 24708, op'.deceleration))
           /\ (~bus'[1].ok
                => /\ result' = [tag |-> "WritingAccelerationFailed",
                                 device |-> id]
                   /\ pc' = "idle")
           /\ (bus'[1].ok /\ ~bus'[2].ok
                => /\ result' = [tag |-> "WritingDecelerationFailed",
                                 device |-> id]
                   /\ pc' = "idle")
           /\ ((\E k \in 1 .. Len(bus') : ~bus'[k].ok)
                => /\ out' = out
                   /\ cycles' = 0
                   /\ inp' = inp)
           /\ ((\A k \in 1 .. Len(bus') : bus'[k].ok)
                => /\ \A k \in 1 .. 4 :
                        out'[7 + k] = u32_to_le_bytes(op'.velocity)[k]
                   /\ result' \notin {[tag |-> "WritingAccelerationFailed",
                                      device |-> id],
                                     [tag |-> "WritingDecelerationFailed",
                                      device |-> id]})]_vars

C31_Witness ==
    /\ op.name = "move_position_velocity_acceleration"
    /\ pc = "idle"
    /\ result = WritingDecelerationFailed
    /\ Len(bus) = 2
    /\ bus[1].ok
    /\ ~bus[2].ok
    /\ op.velocity = 16909060
    /\ <<out[8], out[9], out[10], out[11]>> = <<0, 0, 0, 0>>
    /\ cycles = 0

====
